---- MODULE Spec2Model ----
(***************************************************************************)
(* A model of etherface: the signature store and its three writers, the    *)
(* GitHub token manager, the supervisor of the five worker threads, the    *)
(* 4Byte fetcher and the GitHub crawler's main loop.                       *)
(*                                                                         *)
(* Each part of the program has its own variables, its own initial         *)
(* predicate and its own specification; a specification leaves the         *)
(* variables of the other parts at their initial values.                   *)
(***************************************************************************)
EXTENDS Naturals, Integers, Sequences, FiniteSets, TLC

VARIABLES
    \* ---- signature table and the workers calling SignatureHandler::insert
    sigRows,        \* the rows of table signature: a set of [id, text, hash]
    sigNextId,      \* the SERIAL counter behind signature.id
    sigKinds,       \* table mapping_signature_kind: a set of <<signature_id, kind>>
    wpc,            \* each writer's position inside SignatureHandler::insert
    warg,           \* the SignatureWithMetadata the writer passed
    wres,           \* the local `res` of insert (a row, or NoRow)
    wret,           \* the row the writer's last completed call returned
    wsnap,          \* what the store held when the observed writer's call started
    \* ---- TokenManager
    pool,           \* TokenManager.pool
    active,         \* TokenManager.active
    tmOp,           \* the operation that produced this state
    tmResult,       \* its result: "ok" or "pool_empty"
    tmSlept,        \* seconds it slept
    tmProbe,        \* what the rate-limit endpoint answered for each token
    tmPrevPool,     \* pool before the operation
    tmPrevActive,   \* active before the operation
    \* ---- main and the worker threads
    thr,            \* each worker thread: unspawned, running, returned_err, sent, panicked
    abortChan,      \* the mpsc channel of main: the errors sent and not yet received
    mainPc,         \* main: spawn_fetchers, spawn_scrapers, recv, exited
    exitErr,        \* the error main returned (the worker whose error it is)
    \* ---- 4Byte and the 4Byte fetcher
    fbUp,           \* what each 4Byte endpoint lists, newest first
    fbEdges,        \* table mapping_signature_fourbyte: a set of <<signature_id, kind>>
    fbPc,           \* FourbyteFetcher::start: check, init_page, cycle, page, sleep, failed
    fbE,            \* the endpoint start is working on
    fbNext,         \* FourbyteClient.page_next_event / page_next_function (0 is None)
    fbAcc,          \* `signatures` of initial_data_retrieval
    fbFetched,      \* the pages of each endpoint fetched in this cycle, in order
    fbKnownAt,      \* the page of this cycle on which an existing edge was first met (0: none)
    \* ---- GitHub, table github_repository and the GitHub crawler
    ghPushed,       \* pushed_at of each repository on GitHub
    repoDb,         \* table github_repository: the row of each repository id
    evChan,         \* the mpsc channel of GithubCrawler::start: the events posted
    crPc,           \* GithubCrawler::start: bootstrap, try_recv, running, failed, panicked
    crRunning,      \* what the crawler is executing: crawling or an event
    crStage,        \* the position inside it: begin, sweep
    crWork,         \* the repositories its loop has still to handle
    crLast,         \* the refresh step the last action was, if it was one
    \* ---- one crawling iteration of the GitHub crawler in detail
    itPc,           \* start_one_crawling_iteration: idle, owners, repos, stargazers, failed, panicked
    itBatch,        \* the owners or repositories the iteration has still to visit
    itStarWork,     \* the stargazers of the repository being visited still to handle
    itUsers,        \* table github_user: the row of each user id
    itEdges,        \* table mapping_stargazer: a set of <<user_id, repository_id>>
    itVisited,      \* the repositories whose visited_at is set
    itTurn,         \* the visit of a repository the last actions were part of, if any
    \* ---- the requests of the GitHub crawler and RequestHandler::execute
    rqPc,           \* the crawler: idle, executing (inside execute), returned, failed
    rqSite,         \* the call site that issued the request
    ex,             \* execute: retries, retries_valid, its result; the Retry responses
                    \* and re-sends so far, the last arm taken and its sleep at the loop's end
    rqDeleted,      \* the rows (repo, user) set deleted on behalf of the request
    rqLast,         \* the site and the result of the request handled last
    \* ---- the signature parser (parser.rs)
    paPc,           \* idle, or the function that returned last: abi, sol
    paAbi,          \* the ABI array from_abi was called with
    paSol,          \* the Solidity content from_sol was called with
    paOut,          \* the Vec<SignatureWithMetadata> returned
    \* ---- the workers inserting what they observed (scrapers, 4Byte fetcher)
    inAll,          \* the observations the workers make
    inPending,      \* those of them not inserted yet
    inEdges,        \* the rows of the three mapping_signature_* tables
    inNow,          \* Utc::now()
    inLast,         \* the insert done last: its keys and what was stored before
    \* ---- FourbyteClient and its two cursors (api/fourbyte.rs)
    clUp,           \* what each 4Byte endpoint lists, newest first
    clNext,         \* page_next_function / page_next_event: the page number of the link (0 is None)
    clRet,          \* the last call of a page method: the endpoint, the cursors before it, the listing asked and what it returned
    \* ---- the workers' units of work and the flags that close them
    lcFlags,        \* the lifecycle columns set: <<column, id>>
    lcCrawler,      \* the GitHub crawler: running, failed
    lcScraper,      \* the GitHub scraper: running, failed
    lcUnit,         \* the unit of work done last: what it was given and its writes in their order
    \* ---- insert_repository_if_not_exists with a fork's parent (fetcher/github.rs)
    fkGithub,       \* GitHub: which repositories are from 2018 or older, the source and the forks of each
    fkDb,           \* table github_repository: the row of each repository id
    fkPc,           \* the crawler: running, failed, panicked
    fkLast,         \* the discovery handled last: the entity, the inserts made in order, the ids probed
    \* ---- the loop of GithubCrawler::start, event by event, and table github_crawler_metadata
    evQueue,        \* the mpsc channel: the messages posted and not yet received, oldest first
    evMeta,         \* github_crawler_metadata: the stored timestamp of each event
    evNow,          \* Utc::now()
    evPc,           \* GithubCrawler::start: looping, failed, panicked
    evLast,         \* the loop turn made last: what it ran, how it ended, the channel and the timestamps before it
    \* ---- the 4Byte fetcher across restarts of the process
    frUp,           \* what each 4Byte endpoint lists, newest first
    frStore,        \* the signature table and mapping_signature_fourbyte: rows, nextId, kinds, edges
    frPc,           \* FourbyteFetcher::start: check, init_page, init_insert, cycle, page, sleep
    frE,            \* the endpoint start is at
    frNext,         \* the page the client fetches next of each endpoint (0: none)
    frAcc,          \* signatures of initial_data_retrieval still to insert
    frRuns,         \* how often the process was started again
    frKilled,       \* the process was terminated inside initial_data_retrieval
    frDone,         \* the endpoints whose initial_data_retrieval returned Ok
    \* ---- the Etherscan scraper, cycle by cycle
    xcVisited,      \* the contracts whose scraped_at is set
    xcEdges,        \* mapping_signature_etherscan: pairs of contract and signature
    xcPc,           \* EtherscanScraper::start: sleep, scraping, failed
    xcList,         \* what get_unvisited returned to the cycle
    xcWork,         \* the contracts of the cycle still to come
    xcTurns,        \* the turns of the cycle: contract, answer of get_abi, writes
    xcCycles        \* the cycles begun

storeVars == <<sigRows, sigNextId, sigKinds, wpc, warg, wres, wret, wsnap>>
tokenVars == <<pool, active, tmOp, tmResult, tmSlept, tmProbe, tmPrevPool, tmPrevActive>>
mainVars == <<thr, abortChan, mainPc, exitErr>>
tableVars == <<sigRows, sigNextId, sigKinds>>
writerVars == <<wpc, warg, wres, wret, wsnap>>
registryVars == <<fbUp, fbEdges, fbPc, fbE, fbNext, fbAcc, fbFetched, fbKnownAt>>
crawlerVars == <<ghPushed, repoDb, evChan, crPc, crRunning, crStage, crWork, crLast>>
iterVars == <<itPc, itBatch, itStarWork, itUsers, itEdges, itVisited, itTurn>>
requestVars == <<rqPc, rqSite, ex, rqDeleted, rqLast>>
parserVars == <<paPc, paAbi, paSol, paOut>>
ingestVars == <<inAll, inPending, inEdges, inNow, inLast>>
clientVars == <<clUp, clNext, clRet>>
lifecycleVars == <<lcFlags, lcCrawler, lcScraper, lcUnit>>
forkVars == <<fkGithub, fkDb, fkPc, fkLast>>
eventVars == <<evQueue, evMeta, evNow, evPc, evLast>>
firstRunVars == <<frUp, frStore, frPc, frE, frNext, frAcc, frRuns, frKilled, frDone>>
explorerVars == <<xcVisited, xcEdges, xcPc, xcList, xcWork, xcTurns, xcCycles>>
vars == <<storeVars, tokenVars, mainVars, registryVars, crawlerVars, iterVars, requestVars, parserVars,
          ingestVars, clientVars, lifecycleVars, forkVars, eventVars, firstRunVars, explorerVars>>

\* What a step of one part leaves alone.
StoreOnly == UNCHANGED <<tokenVars, mainVars, registryVars, crawlerVars, iterVars, requestVars, parserVars, ingestVars,
                clientVars,
                lifecycleVars,
                forkVars,
                eventVars,
                firstRunVars,
                explorerVars>>
TokenOnly == UNCHANGED <<storeVars, mainVars, registryVars, crawlerVars, iterVars, requestVars, parserVars, ingestVars,
                clientVars,
                lifecycleVars,
                forkVars,
                eventVars,
                firstRunVars,
                explorerVars>>
MainOnly == UNCHANGED <<storeVars, tokenVars, registryVars, crawlerVars, iterVars, requestVars, parserVars, ingestVars,
                clientVars,
                lifecycleVars,
                forkVars,
                eventVars,
                firstRunVars,
                explorerVars>>
RegistryOnly == UNCHANGED <<writerVars, tokenVars, mainVars, crawlerVars, iterVars, requestVars, parserVars, ingestVars,
                clientVars,
                lifecycleVars,
                forkVars,
                eventVars,
                firstRunVars,
                explorerVars>>
CrawlerOnly == UNCHANGED <<storeVars, tokenVars, mainVars, registryVars, iterVars, requestVars, parserVars, ingestVars,
                clientVars,
                lifecycleVars,
                forkVars,
                eventVars,
                firstRunVars,
                explorerVars>>
IterationOnly ==
    UNCHANGED <<storeVars, tokenVars, mainVars, registryVars,
                ghPushed, evChan, crPc, crRunning, crStage, crWork, crLast, requestVars, parserVars, ingestVars,
                clientVars,
                lifecycleVars,
                forkVars,
                eventVars,
                firstRunVars,
                explorerVars>>
RequestOnly ==
    UNCHANGED <<storeVars, mainVars, registryVars, crawlerVars, iterVars,
                tmOp, tmResult, tmSlept, tmProbe, tmPrevPool, tmPrevActive, parserVars, ingestVars,
                clientVars,
                lifecycleVars,
                forkVars,
                eventVars,
                firstRunVars,
                explorerVars>>
ParserOnly ==
    UNCHANGED <<storeVars, tokenVars, mainVars, registryVars, crawlerVars, iterVars, requestVars,
                ingestVars,
                clientVars,
                lifecycleVars,
                forkVars,
                eventVars,
                firstRunVars,
                explorerVars>>
ClientOnly ==
    UNCHANGED <<storeVars, tokenVars, mainVars, registryVars, crawlerVars, iterVars, requestVars,
                parserVars, ingestVars,
                lifecycleVars,
                forkVars,
                eventVars,
                firstRunVars,
                explorerVars>>
IngestOnly ==
    UNCHANGED <<writerVars, tokenVars, mainVars, registryVars, crawlerVars, iterVars, requestVars,
                parserVars,
                clientVars,
                lifecycleVars,
                forkVars,
                eventVars,
                firstRunVars,
                explorerVars>>
LifecycleOnly ==
    UNCHANGED <<storeVars, tokenVars, mainVars, registryVars, crawlerVars, iterVars, requestVars,
                parserVars, ingestVars, clientVars, forkVars,
                eventVars,
                firstRunVars,
                explorerVars>>
ForkOnly ==
    UNCHANGED <<storeVars, tokenVars, mainVars, registryVars, crawlerVars, iterVars, requestVars,
                parserVars, ingestVars, clientVars, lifecycleVars,
                eventVars,
                firstRunVars,
                explorerVars>>
EventOnly ==
    UNCHANGED <<storeVars, tokenVars, mainVars, registryVars, crawlerVars, iterVars, requestVars,
                parserVars, ingestVars, clientVars, lifecycleVars, forkVars,
                firstRunVars,
                explorerVars>>
FirstRunOnly ==
    UNCHANGED <<storeVars, tokenVars, mainVars, registryVars, crawlerVars, iterVars, requestVars,
                parserVars, ingestVars, clientVars, lifecycleVars, forkVars,
                eventVars,
                explorerVars>>
ExplorerOnly ==
    UNCHANGED <<storeVars, tokenVars, mainVars, registryVars, crawlerVars, iterVars, requestVars,
                parserVars, ingestVars, clientVars, lifecycleVars, forkVars,
                eventVars,
                firstRunVars>>

(***************************************************************************)
(* Helpers                                                                 *)
(***************************************************************************)
Range(s) == {s[i] : i \in 1..Len(s)}

SetMax(S) == CHOOSE m \in S : \A x \in S : x <= m

RECURSIVE SelectSeqBy(_, _)
\* The subsequence of s whose elements are in keep, order kept (Vec::retain).
SelectSeqBy(s, keep) ==
    IF s = <<>> THEN <<>>
    ELSE IF Head(s) \in keep THEN <<Head(s)>> \o SelectSeqBy(Tail(s), keep)
         ELSE SelectSeqBy(Tail(s), keep)

SeqsUpTo(S, n) == UNION {[1..k -> S] : k \in 0..n}

(***************************************************************************)
(* Signatures                                                              *)
(***************************************************************************)
\* The canonical texts the model's sources observe.
Texts == {"transfer(address,uint256)", "balanceOf(address)",
          "Transfer(address,address,uint256)", "approve(address,uint256)"}

Kinds == {"function", "event"}

\* format!("{:x}", Keccak256::digest(&text)) on the model's texts.
Keccak256Hex(text) ==
    CASE text = "transfer(address,uint256)" ->
             "a9059cbb2ab09eb219583f4a59a5d0623ade346d962bcd4e46b11da047c9049b"
      [] text = "balanceOf(address)" ->
             "70a08231b98ef4ca268c9cc3f6b4590e4bfec28280db06bb5d45e689f2a360be"
      [] text = "Transfer(address,address,uint256)" ->
             "ddf252ad1be2c89b69c2b068fc378daa952ba7f163c4a11628f55a4df523b3ef"
      [] text = "approve(address,uint256)" ->
             "095ea7b334ae44009aa867bfb386f5c3b4b443ac6f0ee573fa91c4608fbadfba"
      [] text = "f()" ->
             "26121ff025a6ba40cf27bcfb7cd50bcb8eab64881826af3760564c9e1ffa71eb"
      [] text = "f(address)" ->
             "fc68521acceef9f9f521e948722ba8a63e768108e3a0a2ae398428dc175228df"
      [] text = "f(address,uint256)" ->
             "724658c1adcc4ecda3d84a865c6c1046bd1f5f1055ff425353bdeba1ad2ef840"
      [] text = "f(uint256,address,bool)" ->
             "0c6f612cf1eeb7f4157a8311c83858d6c51189d557d805195305843c7bf675e6"
      [] text = "g()" ->
             "e2179b8e903d3a9a4266eb4432407ea5b1b4f80094f17957da915cd5070a225c"
      [] text = "g(address,uint256)" ->
             "336895f526d927296296306b366948b21ec068ac5c79067293b605b2af2c8ed4"
      [] text = "g(MyStruct)" ->
             "4da03654955f9764961b6398761f40538efe52ef9079adc8f42983ebecc5c83f"
      [] text = "g(uint256[])" ->
             "baf7160930658efb3dc8ecbf339286817865ffd8249edc4e40ea4de88ea4e762"
      [] text = "g(address,)" ->
             "a02ff61c7fa9cd4dc34541f84d2207101657ebb3ee39b991c558fb8d10b63091"
      [] text = "g(bytes32[2][],bool)" ->
             "6c386eaeca1cf25f1f7ec0c6b3426700618bcbb4ff62799785542200ad811fa6"
      [] text = "g(uint2560)" ->
             "f6466cff1700aadb8d7e37ec0f9f348eba5dd4f42419ae779cd0d3eaa190b9b4"

\* SignatureWithMetadata::new
NewSignatureWithMetadata(text, kind, is_valid) ==
    [text |-> text, hash |-> Keccak256Hex(text), kind |-> kind, is_valid |-> is_valid]

NoRow == [id |-> 0, text |-> "", hash |-> "", is_valid |-> FALSE]

(***************************************************************************)
(* The signature table (database/handler/signature.rs)                     *)
(***************************************************************************)
\* The threads that write signatures (main.rs): the 4Byte fetcher and the two scrapers.
Writers == {"fourbyte_fetcher", "etherscan_scraper", "github_scraper"}

\* The writer whose calls the dedup law is stated for.
SeqWriter == "github_scraper"

\* The texts the writers of the store model observe.
StoreTexts == {"transfer(address,uint256)", "Transfer(address,address,uint256)"}

\* The migration's UNIQUE constraint on signature.hash.
HashUniqueConstraint == TRUE

RowsWithHash(rows, h) == {r \in rows : r.hash = h}

\* get_by_hash that never finds a row.
GetByHashNever(rows, h) == NoRow

\* SignatureHandler::get_by_hash: the first row with that hash, if any.
GetByHash(rows, h) ==
    IF RowsWithHash(rows, h) = {} THEN NoRow
    ELSE CHOOSE r \in RowsWithHash(rows, h) :
             \A q \in RowsWithHash(rows, h) : r.id <= q.id

\* The INSERT of SignatureHandler::insert: TRUE when the database accepts the row.
InsertAccepted(rows, h) == ~(HashUniqueConstraint /\ RowsWithHash(rows, h) # {})

\* A row whose hash column is filled from the text.
NewRowTextAsHash(id, sig) == [id |-> id, text |-> sig.text, hash |-> sig.text, is_valid |-> sig.is_valid]

NewRow(id, sig) == [id |-> id, text |-> sig.text, hash |-> sig.hash, is_valid |-> sig.is_valid]

StoreInit ==
    /\ sigRows = {}
    /\ sigNextId = 1
    /\ sigKinds = {}
    /\ wpc = [w \in Writers |-> "idle"]
    /\ warg = [w \in Writers |-> NewSignatureWithMetadata("transfer(address,uint256)", "function", TRUE)]
    /\ wres = [w \in Writers |-> NoRow]
    /\ wret = [w \in Writers |-> NoRow]
    /\ wsnap = [n |-> 0, ids |-> {}]

\* A writer calls dbc.signature().insert(&signature).
SigCall(w, text, kind, is_valid) ==
    /\ StoreOnly
    /\ wpc[w] = "idle"
    /\ wpc' = [wpc EXCEPT ![w] = "get_by_hash"]
    /\ warg' = [warg EXCEPT ![w] = NewSignatureWithMetadata(text, kind, is_valid)]
    /\ wsnap' = IF w = SeqWriter
                THEN [n |-> Cardinality(sigRows),
                      ids |-> {r.id : r \in RowsWithHash(sigRows, Keccak256Hex(text))}]
                ELSE wsnap
    /\ wres' = [wres EXCEPT ![w] = NoRow]
    /\ wret' = [wret EXCEPT ![w] = NoRow]
    /\ UNCHANGED <<sigRows, sigNextId, sigKinds>>

\* match self.get_by_hash(&entity.hash)
SigGetByHash(w) ==
    /\ StoreOnly
    /\ wpc[w] = "get_by_hash"
    /\ LET found == GetByHash(sigRows, warg[w].hash) IN
        /\ wres' = [wres EXCEPT ![w] = found]
        /\ wpc' = [wpc EXCEPT ![w] = IF found = NoRow THEN "insert_row" ELSE "insert_kind"]
    /\ UNCHANGED <<sigRows, sigNextId, sigKinds, warg, wret, wsnap>>

\* None => diesel::insert_into(signature::table)...get_result(..).unwrap()
SigInsertRow(w) ==
    /\ StoreOnly
    /\ wpc[w] = "insert_row"
    /\ sigNextId' = sigNextId + 1
    /\ IF InsertAccepted(sigRows, warg[w].hash)
       THEN /\ sigRows' = sigRows \cup {NewRow(sigNextId, warg[w])}
            /\ wres' = [wres EXCEPT ![w] = NewRow(sigNextId, warg[w])]
            /\ wpc' = [wpc EXCEPT ![w] = "insert_kind"]
       ELSE \* the unique violation comes back as Err and unwrap() panics
            /\ wpc' = [wpc EXCEPT ![w] = "panicked"]
            /\ UNCHANGED <<sigRows, wres>>
    /\ UNCHANGED <<sigKinds, warg, wret, wsnap>>

\* insert_into(mapping_signature_kind).on_conflict_do_nothing(); res
SigInsertKind(w) ==
    /\ StoreOnly
    /\ wpc[w] = "insert_kind"
    /\ sigKinds' = sigKinds \cup {<<wres[w].id, warg[w].kind>>}
    /\ wret' = [wret EXCEPT ![w] = wres[w]]
    /\ wpc' = [wpc EXCEPT ![w] = "idle"]
    /\ UNCHANGED <<sigRows, sigNextId, warg, wres, wsnap>>

(***************************************************************************)
(* The GitHub token manager (api/github/token.rs)                          *)
(***************************************************************************)
\* The tokens of the configuration (ETHERFACE_TOKENS_GITHUB).
Tokens == {"A", "B", "C"}

\* The largest number of remaining core calls the rate-limit endpoint reports.
MaxCore == 2

\* Sleep of refresh when the search rate limit is drained (token.rs, line 73).
SLEEP_DURATION_SEARCH_DRAINED == 60

\* Sleep of refresh when every token is drained: 5 * 60.
SLEEP_DURATION_TOKENS_DRAINED == 300

\* What TokenManager::execute(token) yields: Ok(RatelimitObject) with the remaining
\* core and search calls, Err(GithubTokenInvalid) on a 401, or another error (the
\* request could not be sent five times, the body did not deserialize).
ProbeResults ==
    {[status |-> "invalid", core |-> 0, search |-> 0],
     [status |-> "error", core |-> 0, search |-> 0]}
    \cup [status : {"ok"}, core : 0..MaxCore, search : 0..1]

FreshProbe == [status |-> "ok", core |-> MaxCore, search |-> 1]

\* Vec<String> values without repetition.
TokenPools == {p \in SeqsUpTo(Tokens, Cardinality(Tokens)) :
                  /\ Len(p) >= 1
                  /\ \A i, j \in 1..Len(p) : i # j => p[i] # p[j]}

\* valid_tokens of refresh: the pool's tokens whose probe is Ok, in pool order.
ValidTokens(p, probe) == SelectSeqBy(p, {t \in Tokens : probe[t].status = "ok"})

\* invalid_tokens of cleanup: the pool's tokens whose probe is Err(GithubTokenInvalid).
InvalidTokens(p, probe) == SelectSeqBy(p, {t \in Tokens : probe[t].status = "invalid"})

\* A selection that keeps valid_tokens[0] whatever the others have left.
BestOfFirst(valid, probe) == valid[1]

\* The loop `if token.1 > best.1 { best = token }` starting at valid_tokens[0]:
\* the first token of `valid` with the largest remaining core calls.
BestOf(valid, probe) ==
    LET top == SetMax({probe[valid[i]].core : i \in 1..Len(valid)})
        first == CHOOSE i \in 1..Len(valid) :
                    /\ probe[valid[i]].core = top
                    /\ \A j \in 1..(i - 1) : probe[valid[j]].core # top
    IN valid[first]

\* refresh without the `0 =>` arm: it switches to the best token even when drained.
RefreshOutcomeNoDrainedArm(p, act, probe) ==
    IF probe[act].status = "ok" /\ probe[act].search = 0
    THEN [active |-> act, result |-> "ok", slept |-> SLEEP_DURATION_SEARCH_DRAINED]
    ELSE IF ValidTokens(p, probe) = <<>>
    THEN [active |-> act, result |-> "pool_empty", slept |-> 0]
    ELSE [active |-> BestOf(ValidTokens(p, probe), probe), result |-> "ok", slept |-> 0]

\* TokenManager::refresh as a function of the state and the probes' answers:
\* the new active token, the result and the seconds slept.
RefreshOutcome(p, act, probe) ==
    IF probe[act].status = "ok" /\ probe[act].search = 0
    THEN [active |-> act, result |-> "ok", slept |-> SLEEP_DURATION_SEARCH_DRAINED]
    ELSE IF ValidTokens(p, probe) = <<>>
    THEN [active |-> act, result |-> "pool_empty", slept |-> 0]
    ELSE IF probe[BestOf(ValidTokens(p, probe), probe)].core = 0
    THEN [active |-> act, result |-> "ok", slept |-> SLEEP_DURATION_TOKENS_DRAINED]
    ELSE [active |-> BestOf(ValidTokens(p, probe), probe), result |-> "ok", slept |-> 0]

\* cleanup that evicts on any probe error (`if let Err(_) = self.execute(token)`).
CleanupOutcomeAnyError(p, act, probe) ==
    IF ValidTokens(p, probe) = <<>>
    THEN [pool |-> p, active |-> act, result |-> "pool_empty"]
    ELSE [pool |-> ValidTokens(p, probe), active |-> ValidTokens(p, probe)[1], result |-> "ok"]

\* cleanup that evicts before it counts what is left.
CleanupOutcomeEvictFirst(p, act, probe) ==
    LET kept == SelectSeqBy(p, Tokens \ Range(InvalidTokens(p, probe)))
    IN IF kept = <<>>
       THEN [pool |-> kept, active |-> act, result |-> "pool_empty"]
       ELSE [pool |-> kept, active |-> kept[1], result |-> "ok"]

\* cleanup that leaves the active token alone.
CleanupOutcomeKeepsActive(p, act, probe) ==
    IF Len(InvalidTokens(p, probe)) = Len(p)
    THEN [pool |-> p, active |-> act, result |-> "pool_empty"]
    ELSE [pool |-> SelectSeqBy(p, Tokens \ Range(InvalidTokens(p, probe))), active |-> act,
          result |-> "ok"]

\* TokenManager::cleanup as a function of the state and the probes' answers.
CleanupOutcome(p, act, probe) ==
    IF Len(InvalidTokens(p, probe)) = Len(p)
    THEN [pool |-> p, active |-> act, result |-> "pool_empty"]
    ELSE LET kept == SelectSeqBy(p, Tokens \ Range(InvalidTokens(p, probe)))
         IN [pool |-> kept, active |-> kept[1], result |-> "ok"]

\* The state TokenManager::new returns: the configured tokens, all of which passed
\* the constructor's cleanup, the first of them active.
TokenInit ==
    /\ pool \in TokenPools
    /\ active = pool[1]
    /\ tmOp = "new"
    /\ tmResult = "ok"
    /\ tmSlept = 0
    /\ tmProbe = [t \in Tokens |-> FreshProbe]
    /\ tmPrevPool = pool
    /\ tmPrevActive = active

TokenIdle ==
    /\ pool = <<"A", "B", "C">>
    /\ active = "A"
    /\ tmOp = "new"
    /\ tmResult = "ok"
    /\ tmSlept = 0
    /\ tmProbe = [t \in Tokens |-> FreshProbe]
    /\ tmPrevPool = pool
    /\ tmPrevActive = active

\* GitHub's answer for one token changes: calls are spent or the window resets, the
\* token expires or is revoked, the endpoint cannot be reached.
HostChanges(t, r) ==
    /\ TokenOnly
    /\ tmProbe[t] # r
    /\ tmProbe' = [tmProbe EXCEPT ![t] = r]
    /\ tmOp' = "host"
    /\ tmResult' = "ok"
    /\ tmSlept' = 0
    /\ tmPrevPool' = pool
    /\ tmPrevActive' = active
    /\ UNCHANGED <<pool, active>>

\* self.github_tokenmanager...borrow_mut().refresh()
Refresh ==
    /\ TokenOnly
    /\ LET out == RefreshOutcome(pool, active, tmProbe) IN
        /\ active' = out.active
        /\ tmResult' = out.result
        /\ tmSlept' = out.slept
    /\ tmOp' = "refresh"
    /\ tmPrevPool' = pool
    /\ tmPrevActive' = active
    /\ UNCHANGED <<pool, tmProbe>>

\* self.github_tokenmanager...borrow_mut().cleanup()
Cleanup ==
    /\ TokenOnly
    /\ LET out == CleanupOutcome(pool, active, tmProbe) IN
        /\ pool' = out.pool
        /\ active' = out.active
        /\ tmResult' = out.result
    /\ tmOp' = "cleanup"
    /\ tmSlept' = 0
    /\ tmPrevPool' = pool
    /\ tmPrevActive' = active
    /\ UNCHANGED tmProbe

(***************************************************************************)
(* main and the five worker threads (etherface/src/main.rs)                *)
(***************************************************************************)
Fetchers == {"fourbyte_fetcher", "etherscan_fetcher", "github_fetcher"}
Scrapers == {"github_scraper", "etherscan_scraper"}
Workers == Fetchers \cup Scrapers

MainInit ==
    /\ thr = [w \in Workers |-> "unspawned"]
    /\ abortChan = <<>>
    /\ mainPc = "spawn_fetchers"
    /\ exitErr = "none"

\* The process is gone once main has returned.
ProcessRunning == mainPc # "exited"

\* start_data_retrieval_threads(&tx)
SpawnFetchers ==
    /\ MainOnly
    /\ mainPc = "spawn_fetchers"
    /\ thr' = [w \in Workers |-> IF w \in Fetchers THEN "running" ELSE thr[w]]
    /\ mainPc' = "spawn_scrapers"
    /\ UNCHANGED <<abortChan, exitErr>>

\* start_data_scraper_threads(&tx)
SpawnScrapers ==
    /\ MainOnly
    /\ mainPc = "spawn_scrapers"
    /\ thr' = [w \in Workers |-> IF w \in Scrapers THEN "running" ELSE thr[w]]
    /\ mainPc' = "recv"
    /\ UNCHANGED <<abortChan, exitErr>>

\* `if let Err(why) = fetcher.start()`: the worker's start function returns an error.
StartReturnsErr(w) ==
    /\ MainOnly
    /\ ProcessRunning
    /\ thr[w] = "running"
    /\ thr' = [thr EXCEPT ![w] = "returned_err"]
    /\ UNCHANGED <<abortChan, mainPc, exitErr>>

\* A panic inside start (an unwrap on a database error, the crawler's panic!): the
\* thread unwinds and nothing is sent.
StartPanics(w) ==
    /\ MainOnly
    /\ ProcessRunning
    /\ thr[w] = "running"
    /\ thr' = [thr EXCEPT ![w] = "panicked"]
    /\ UNCHANGED <<abortChan, mainPc, exitErr>>

\* tx_abort_channel.send(why).unwrap()
SendAbort(w) ==
    /\ MainOnly
    /\ ProcessRunning
    /\ thr[w] = "returned_err"
    /\ abortChan' = Append(abortChan, w)
    /\ thr' = [thr EXCEPT ![w] = "sent"]
    /\ UNCHANGED <<mainPc, exitErr>>

\* A supervisor that spawns the failed worker again instead of returning.
MainRecvRestarts ==
    /\ MainOnly
    /\ mainPc = "recv"
    /\ abortChan # <<>>
    /\ thr' = [thr EXCEPT ![Head(abortChan)] = "running"]
    /\ abortChan' = Tail(abortChan)
    /\ UNCHANGED <<mainPc, exitErr>>

\* match rx.recv() { Ok(msg) => anyhow::bail!(msg), .. }
MainRecv ==
    /\ MainOnly
    /\ mainPc = "recv"
    /\ abortChan # <<>>
    /\ exitErr' = Head(abortChan)
    /\ abortChan' = Tail(abortChan)
    /\ mainPc' = "exited"
    /\ UNCHANGED thr

(***************************************************************************)
(* The 4Byte fetcher (etherface/src/fetcher/fourbyte.rs, api/fourbyte.rs)  *)
(***************************************************************************)
\* Signatures of one page of a 4Byte endpoint.
PageSize == 2

\* The most signatures an endpoint lists.
MaxUpstream == 3

\* What is submitted to each endpoint.
EndpointTexts(e) ==
    IF e = "function"
    THEN {"transfer(address,uint256)", "balanceOf(address)", "approve(address,uint256)"}
    ELSE {"Transfer(address,address,uint256)"}

Min(a, b) == IF a <= b THEN a ELSE b

\* The `results` of page p of a listing.
PageResults(list, p) == SubSeq(list, (p - 1) * PageSize + 1, Min(p * PageSize, Len(list)))

\* The `next` of page p of a listing (0 is null).
PageNext(list, p) == IF p * PageSize < Len(list) THEN p + 1 ELSE 0

\* page_function_signature / page_event_signature: the texts of the page become
\* SignatureWithMetadata values of the endpoint's kind.
PageSignatures(list, p, e) ==
    [i \in 1..Len(PageResults(list, p)) |-> NewSignatureWithMetadata(PageResults(list, p)[i], e, TRUE)]

\* SignatureHandler::insert called by one thread while no other writes: the store
\* after the call and the row it returns.
SignatureInsert(rows, nextId, kinds, sig) ==
    LET found == GetByHash(rows, sig.hash)
        res == IF found = NoRow THEN NewRow(nextId, sig) ELSE found
    IN  [rows |-> IF found = NoRow THEN rows \cup {res} ELSE rows,
         nextId |-> IF found = NoRow THEN nextId + 1 ELSE nextId,
         kinds |-> kinds \cup {<<res.id, sig.kind>>},
         row |-> res]

\* MappingSignatureFourbyteHandler::get
EdgeExists(edges, id, kind) == <<id, kind>> \in edges

RECURSIVE InsertAll(_, _)
\* The insertion loop of initial_data_retrieval; st is [rows, nextId, kinds, edges].
InsertAll(sigs, st) ==
    IF sigs = <<>> THEN st
    ELSE LET ins == SignatureInsert(st.rows, st.nextId, st.kinds, Head(sigs)) IN
         InsertAll(Tail(sigs),
                   [rows |-> ins.rows, nextId |-> ins.nextId, kinds |-> ins.kinds,
                    edges |-> st.edges \cup {<<ins.row.id, Head(sigs).kind>>}])

RECURSIVE InsertSignature(_, _)
\* insert_signature; st is [rows, nextId, kinds, edges, count, known], where count is
\* insert_count and known tells that the loop returned on an existing edge.
InsertSignature(sigs, st) ==
    IF sigs = <<>> THEN st
    ELSE LET ins == SignatureInsert(st.rows, st.nextId, st.kinds, Head(sigs))
             seen == [st EXCEPT !.rows = ins.rows, !.nextId = ins.nextId, !.kinds = ins.kinds]
         IN  IF EdgeExists(st.edges, ins.row.id, Head(sigs).kind)
             THEN [seen EXCEPT !.known = TRUE]
             ELSE InsertSignature(Tail(sigs),
                      [seen EXCEPT !.edges = st.edges \cup {<<ins.row.id, Head(sigs).kind>>},
                                   !.count = st.count + 1])

\* get_events_count / get_functions_count
EdgeCount(edges, e) == Cardinality({m \in edges : m[2] = e})

RegistryInit ==
    /\ fbUp = [e \in Kinds |-> <<>>]
    /\ fbEdges = {}
    /\ fbPc = "check"
    /\ fbE = "event"
    /\ fbNext = [e \in Kinds |-> 1]
    /\ fbAcc = <<>>
    /\ fbFetched = [e \in Kinds |-> <<>>]
    /\ fbKnownAt = [e \in Kinds |-> 0]

\* Somebody submits a signature to 4Byte: it becomes the newest of its endpoint.
RegistrySubmit(e, text) ==
    /\ RegistryOnly
    /\ Len(fbUp[e]) < MaxUpstream
    /\ text \notin Range(fbUp[e])
    /\ fbUp' = [fbUp EXCEPT ![e] = <<text>> \o fbUp[e]]
    /\ UNCHANGED <<tableVars, fbEdges, fbPc, fbE, fbNext, fbAcc, fbFetched, fbKnownAt>>

\* What start goes on with after the first-run step of endpoint e.
AfterFirstRun(e) == IF e = "event" THEN "check" ELSE "cycle"

\* if get_events_count() == 0 { .. } / if get_functions_count() == 0 { .. }
FbCheckCount ==
    /\ RegistryOnly
    /\ fbPc = "check"
    /\ IF EdgeCount(fbEdges, fbE) = 0
       THEN /\ fbPc' = "init_page"
            /\ fbNext' = [e \in Kinds |-> 1]
            /\ fbAcc' = <<>>
            /\ fbE' = fbE
       ELSE /\ fbPc' = AfterFirstRun(fbE)
            /\ fbE' = "function"
            /\ UNCHANGED <<fbNext, fbAcc>>
    /\ UNCHANGED <<tableVars, fbUp, fbEdges, fbFetched, fbKnownAt>>

\* One turn of `while let Some(mut signatures_page) = fbc.page_..()?` in
\* initial_data_retrieval; on None the retrieved signatures are inserted.
FbInitPage ==
    /\ RegistryOnly
    /\ fbPc = "init_page"
    /\ IF fbNext[fbE] # 0
       THEN /\ fbAcc' = fbAcc \o PageSignatures(fbUp[fbE], fbNext[fbE], fbE)
            /\ fbNext' = [fbNext EXCEPT ![fbE] = PageNext(fbUp[fbE], fbNext[fbE])]
            /\ UNCHANGED <<tableVars, fbEdges, fbPc, fbE>>
       ELSE LET st == InsertAll(fbAcc, [rows |-> sigRows, nextId |-> sigNextId,
                                        kinds |-> sigKinds, edges |-> fbEdges]) IN
            /\ sigRows' = st.rows
            /\ sigNextId' = st.nextId
            /\ sigKinds' = st.kinds
            /\ fbEdges' = st.edges
            /\ fbPc' = AfterFirstRun(fbE)
            /\ fbE' = "function"
            /\ fbAcc' = <<>>
            /\ UNCHANGED fbNext
    /\ UNCHANGED <<fbUp, fbFetched, fbKnownAt>>

\* loop { let mut fbc = FourbyteClient::new(); ..
FbNewClient ==
    /\ RegistryOnly
    /\ fbPc = "cycle"
    /\ fbNext' = [e \in Kinds |-> 1]
    /\ fbE' = "event"
    /\ fbPc' = "page"
    /\ fbFetched' = [e \in Kinds |-> <<>>]
    /\ fbKnownAt' = [e \in Kinds |-> 0]
    /\ UNCHANGED <<tableVars, fbUp, fbEdges, fbAcc>>

\* What start goes on with when the while loop of endpoint e ends.
AfterPaging(e) == IF e = "event" THEN "page" ELSE "sleep"

\* One turn of `while let Some(signatures) = fbc.page_..()? { if insert_signature(..) == 0
\* { break; } }`.
FbPage ==
    /\ RegistryOnly
    /\ fbPc = "page"
    /\ IF fbNext[fbE] = 0
       THEN /\ fbPc' = AfterPaging(fbE)
            /\ fbE' = "function"
            /\ UNCHANGED <<tableVars, fbEdges, fbNext, fbFetched, fbKnownAt>>
       ELSE LET st == InsertSignature(PageSignatures(fbUp[fbE], fbNext[fbE], fbE),
                          [rows |-> sigRows, nextId |-> sigNextId, kinds |-> sigKinds,
                           edges |-> fbEdges, count |-> 0, known |-> FALSE]) IN
            /\ sigRows' = st.rows
            /\ sigNextId' = st.nextId
            /\ sigKinds' = st.kinds
            /\ fbEdges' = st.edges
            /\ fbNext' = [fbNext EXCEPT ![fbE] = PageNext(fbUp[fbE], fbNext[fbE])]
            /\ fbFetched' = [fbFetched EXCEPT ![fbE] = Append(fbFetched[fbE], fbNext[fbE])]
            /\ fbKnownAt' = IF st.known /\ fbKnownAt[fbE] = 0
                            THEN [fbKnownAt EXCEPT ![fbE] = fbNext[fbE]]
                            ELSE fbKnownAt
            /\ fbPc' = IF st.count = 0 THEN AfterPaging(fbE) ELSE "page"
            /\ fbE' = IF st.count = 0 THEN "function" ELSE fbE
    /\ UNCHANGED <<fbUp, fbAcc>>

\* The `?` of a page request: the request fails and start returns the error.
FbPageFails ==
    /\ RegistryOnly
    /\ fbPc \in {"init_page", "page"}
    /\ fbNext[fbE] # 0
    /\ fbPc' = "failed"
    /\ UNCHANGED <<tableVars, fbUp, fbEdges, fbE, fbNext, fbAcc, fbFetched, fbKnownAt>>

\* std::thread::sleep(FETCHER_POLLING_SLEEP_TIME), then the next turn of the loop.
FbSleep ==
    /\ RegistryOnly
    /\ fbPc = "sleep"
    /\ fbPc' = "cycle"
    /\ UNCHANGED <<tableVars, fbUp, fbEdges, fbE, fbNext, fbAcc, fbFetched, fbKnownAt>>

(***************************************************************************)
(* The GitHub crawler (etherface/src/fetcher/github.rs)                    *)
(***************************************************************************)
\* The ids of the repositories GitHub hosts.
Repos == {1, 2}

\* pushed_at is a logical time: the number of pushes the repository has received.
MaxPush == 1

\* The most events waiting in the channel.
MaxQueued == 1

Events == {"SearchRepositories", "CheckRepositories", "CheckUsers"}
Activities == Events \cup {"crawling"}

\* What the language request of a repository yields: a ratio,
\* Err(GithubResourceUnavailable), or another error.
RatioOutcomes == {"ok", "unavailable", "error"}

\* The answers the language requests of one call give for the repositories of S that
\* have no row (the others are not asked about).
RatioAnswers(S) ==
    {probes \in [Repos -> RatioOutcomes] :
        \A r \in Repos : (r \notin S \/ repoDb[r].present) => probes[r] = "ok"}

\* What modified_since yields: Ok(None) on 304, Ok(Some(repo)),
\* Err(GithubResourceUnavailable), or another error.
ModifiedOutcomes == {"not_modified", "modified", "unavailable", "error"}

NoRepoRow == [present |-> FALSE, pushed |-> 0, scraped |-> FALSE, deleted |-> FALSE]

NoStep == [path |-> "none", repo |-> 0, differs |-> FALSE, seen |-> 0, probe |-> "none",
           scrapedBefore |-> FALSE]

\* The repositories of S as GitHub returns them now, by id.
SearchResult(S) ==
    LET ids == SelectSeqBy(<<1, 2>>, S) IN
    [i \in 1..Len(ids) |-> [id |-> ids[i], pushed |-> ghPushed[ids[i]]]]

\* GithubRepository::to_insertable and GithubRepositoryHandler::insert
InsertedRow(repo) == [present |-> TRUE, pushed |-> repo.pushed, scraped |-> FALSE, deleted |-> FALSE]

\* An update that leaves scraped_at as it is.
UpdateOnly(row, repo) == [row EXCEPT !.pushed = repo.pushed]

\* github_repository().update(&repo, ratio); github_repository().set_scraped_to_null(repo.id)
UpdateAndRescrape(row, repo) == [row EXCEPT !.pushed = repo.pushed, !.scraped = FALSE]

\* github_repository().set_deleted(id)
SetDeleted(row) == [row EXCEPT !.deleted = TRUE]

\* insert_repository_if_not_exists: the table afterwards, and whether it returned Err.
InsertRepositoryIfNotExists(db, repo, probe) ==
    IF db[repo.id].present
    THEN [db |-> [db EXCEPT ![repo.id].deleted = FALSE], err |-> FALSE]
    ELSE CASE probe = "ok" -> [db |-> [db EXCEPT ![repo.id] = InsertedRow(repo)], err |-> FALSE]
           [] probe = "unavailable" ->
                  [db |-> [db EXCEPT ![repo.id] = SetDeleted(InsertedRow(repo))], err |-> FALSE]
           [] probe = "error" -> [db |-> [db EXCEPT ![repo.id] = InsertedRow(repo)], err |-> TRUE]

RECURSIVE InsertRepos(_, _, _)
\* for repo in repos { self.insert_repository_if_not_exists(&repo, ..)?; }
InsertRepos(db, repos, probes) ==
    IF repos = <<>> THEN [db |-> db, err |-> FALSE]
    ELSE LET one == InsertRepositoryIfNotExists(db, Head(repos), probes[Head(repos).id]) IN
         IF one.err THEN one ELSE InsertRepos(one.db, Tail(repos), probes)

\* The refresh of a known repository once its GitHub object is at hand and the crawler
\* has decided to look at it: get_solidity_ratio_or_set_repository_deleted, then
\* update and set_scraped_to_null.
RefreshRow(row, repo, probe) ==
    CASE probe = "ok" -> UpdateAndRescrape(row, repo)
      [] probe = "unavailable" -> SetDeleted(row)
      [] probe = "error" -> row

CrawlerInit ==
    /\ ghPushed = [r \in Repos |-> 0]
    /\ repoDb = [r \in Repos |-> NoRepoRow]
    /\ evChan = <<>>
    /\ crPc = "bootstrap"
    /\ crRunning = {}
    /\ crStage = "begin"
    /\ crWork = <<>>
    /\ crLast = NoStep

\* Somebody pushes to a repository.
Push(r) ==
    /\ CrawlerOnly
    /\ ghPushed[r] < MaxPush
    /\ ghPushed' = [ghPushed EXCEPT ![r] = ghPushed[r] + 1]
    /\ crLast' = NoStep
    /\ UNCHANGED <<repoDb, evChan, crPc, crRunning, crStage, crWork>>

\* The GitHub scraper thread: a repository of get_unscraped_with_forks is scraped and
\* set_scraped(repo.id) is called.
ScraperSetScraped(r) ==
    /\ CrawlerOnly
    /\ repoDb[r].present /\ ~repoDb[r].scraped /\ ~repoDb[r].deleted
    /\ repoDb' = [repoDb EXCEPT ![r].scraped = TRUE]
    /\ crLast' = NoStep
    /\ UNCHANGED <<ghPushed, evChan, crPc, crRunning, crStage, crWork>>

\* The first run of start: every Solidity repository created since 2015 is inserted;
\* then the three timer threads are spawned.
CrawlerBootstrap(found, probes) ==
    /\ CrawlerOnly
    /\ crPc = "bootstrap"
    /\ LET res == IF \A r \in Repos : ~repoDb[r].present
                  THEN InsertRepos(repoDb, SearchResult(found), probes)
                  ELSE [db |-> repoDb, err |-> FALSE] IN
        /\ repoDb' = res.db
        /\ crPc' = IF res.err THEN "failed" ELSE "try_recv"
    /\ crLast' = NoStep
    /\ UNCHANGED <<ghPushed, evChan, crRunning, crStage, crWork>>

\* A timer thread of start_background_event: tx.send(ChannelMessage { event, .. }).
TimerPost(ev) ==
    /\ CrawlerOnly
    /\ crPc \in {"try_recv", "running"}
    /\ Len(evChan) < MaxQueued
    /\ evChan' = Append(evChan, ev)
    /\ crLast' = NoStep
    /\ UNCHANGED <<ghPushed, repoDb, crPc, crRunning, crStage, crWork>>

\* A crawler that takes a message the moment it waits, whatever it is executing.
CrawlerRecvAnytime ==
    /\ CrawlerOnly
    /\ crPc \in {"try_recv", "running"}
    /\ evChan # <<>>
    /\ crRunning' = crRunning \cup {Head(evChan)}
    /\ evChan' = Tail(evChan)
    /\ crPc' = "running"
    /\ crStage' = "begin"
    /\ crWork' = <<>>
    /\ crLast' = NoStep
    /\ UNCHANGED <<ghPushed, repoDb>>

\* match rx.try_recv(): a waiting message starts its event, an empty channel starts
\* one crawling iteration.
CrawlerTryRecv ==
    /\ CrawlerOnly
    /\ crPc = "try_recv"
    /\ IF evChan # <<>>
       THEN /\ crRunning' = crRunning \cup {Head(evChan)}
            /\ evChan' = Tail(evChan)
       ELSE /\ crRunning' = crRunning \cup {"crawling"}
            /\ evChan' = evChan
    /\ crPc' = "running"
    /\ crStage' = "begin"
    /\ crWork' = <<>>
    /\ crLast' = NoStep
    /\ UNCHANGED <<ghPushed, repoDb>>

\* What start goes on with after a step of an event or of a crawling iteration.
Fails ==
    /\ crPc' = "failed"
    /\ crRunning' = {}
    /\ crWork' = <<>>
    /\ crStage' = "begin"

\* Event::SearchRepositories: insert_recently_created_solidity_repositories, then the
\* search of upsert_recently_updated_solidity_repositories.
SearchBegin(created, updated, probes) ==
    /\ CrawlerOnly
    /\ crPc = "running" /\ "SearchRepositories" \in crRunning /\ crStage = "begin"
    /\ LET res == InsertRepos(repoDb, SearchResult(created), probes) IN
        /\ repoDb' = res.db
        /\ IF res.err
           THEN Fails
           ELSE /\ crWork' = SearchResult(updated)
                /\ crStage' = "sweep"
                /\ UNCHANGED <<crPc, crRunning>>
    /\ crLast' = NoStep
    /\ UNCHANGED <<ghPushed, evChan>>

\* One turn of the for loop of upsert_recently_updated_solidity_repositories.
UpsertStep(probe) ==
    /\ CrawlerOnly
    /\ crPc = "running" /\ "SearchRepositories" \in crRunning /\ crStage = "sweep"
    /\ crWork # <<>>
    /\ LET repo == Head(crWork)
           row == repoDb[repo.id] IN
        IF ~row.present
        THEN LET res == InsertRepositoryIfNotExists(repoDb, repo, probe) IN
             /\ repoDb' = res.db
             /\ crLast' = NoStep
             /\ IF res.err THEN Fails
                ELSE crWork' = Tail(crWork) /\ UNCHANGED <<crPc, crRunning, crStage>>
        ELSE /\ repoDb' = [repoDb EXCEPT ![repo.id] = RefreshRow(row, repo, probe)]
             /\ crLast' = [path |-> "upsert", repo |-> repo.id,
                           differs |-> repo.pushed # row.pushed, seen |-> repo.pushed,
                           probe |-> probe, scrapedBefore |-> row.scraped]
             /\ IF probe = "error" THEN Fails
                ELSE crWork' = Tail(crWork) /\ UNCHANGED <<crPc, crRunning, crStage>>
    /\ UNCHANGED <<ghPushed, evChan>>

\* Event::CheckRepositories: get_solidity_repos_active_in_last_n_days(180).
CheckBegin(recent) ==
    /\ CrawlerOnly
    /\ crPc = "running" /\ "CheckRepositories" \in crRunning /\ crStage = "begin"
    /\ \A r \in recent : repoDb[r].present
    /\ LET ids == SelectSeqBy(<<1, 2>>, recent) IN
        crWork' = [i \in 1..Len(ids) |-> [id |-> ids[i], pushed |-> repoDb[ids[i]].pushed]]
    /\ crStage' = "sweep"
    /\ crLast' = NoStep
    /\ UNCHANGED <<ghPushed, repoDb, evChan, crPc, crRunning>>

\* One turn of the for loop of find_repository_updates. GitHub answers 304 only for a
\* repository that has received no push since the row was written.
CheckStep(resp, probe) ==
    /\ CrawlerOnly
    /\ crPc = "running" /\ "CheckRepositories" \in crRunning /\ crStage = "sweep"
    /\ crWork # <<>>
    /\ LET repo_db == Head(crWork)
           repo_gh == [id |-> repo_db.id, pushed |-> ghPushed[repo_db.id]]
           row == repoDb[repo_db.id]
           differs == repo_gh.pushed # repo_db.pushed IN
        /\ resp = "not_modified" => ~differs
        /\ CASE resp = "modified" /\ differs ->
                    /\ repoDb' = [repoDb EXCEPT ![repo_db.id] = RefreshRow(row, repo_gh, probe)]
                    /\ crLast' = [path |-> "check", repo |-> repo_db.id, differs |-> TRUE,
                                  seen |-> repo_gh.pushed, probe |-> probe,
                                  scrapedBefore |-> row.scraped]
                    /\ IF probe = "error" THEN Fails
                       ELSE crWork' = Tail(crWork) /\ UNCHANGED <<crPc, crRunning, crStage>>
             [] resp = "unavailable" ->
                    /\ repoDb' = [repoDb EXCEPT ![repo_db.id] = SetDeleted(row)]
                    /\ crLast' = NoStep
                    /\ crWork' = Tail(crWork)
                    /\ UNCHANGED <<crPc, crRunning, crStage>>
             [] resp = "error" ->
                    /\ Fails
                    /\ crLast' = NoStep
                    /\ UNCHANGED repoDb
             [] OTHER ->
                    /\ crWork' = Tail(crWork)
                    /\ crLast' = NoStep
                    /\ UNCHANGED <<repoDb, crPc, crRunning, crStage>>
    /\ UNCHANGED <<ghPushed, evChan>>

\* Event::CheckUsers: find_user_updates inserts the repositories of the owners whose
\* repository count changed.
UsersSweep(found, probes) ==
    /\ CrawlerOnly
    /\ crPc = "running" /\ "CheckUsers" \in crRunning /\ crStage = "begin"
    /\ LET res == InsertRepos(repoDb, SearchResult(found), probes) IN
        /\ repoDb' = res.db
        /\ IF res.err THEN Fails
           ELSE crStage' = "sweep" /\ UNCHANGED <<crPc, crRunning, crWork>>
    /\ crLast' = NoStep
    /\ UNCHANGED <<ghPushed, evChan>>

\* start_one_crawling_iteration: the owned and starred repositories of the visited
\* users are inserted; it panics when no unvisited owner or repository is left.
CrawlIteration(found, probes, nothingLeft) ==
    /\ CrawlerOnly
    /\ crPc = "running" /\ "crawling" \in crRunning /\ crStage = "begin"
    /\ IF nothingLeft
       THEN /\ crPc' = "panicked"
            /\ crRunning' = {}
            /\ UNCHANGED <<repoDb, crStage, crWork>>
       ELSE LET res == InsertRepos(repoDb, SearchResult(found), probes) IN
            /\ repoDb' = res.db
            /\ IF res.err THEN Fails
               ELSE crStage' = "sweep" /\ UNCHANGED <<crPc, crRunning, crWork>>
    /\ crLast' = NoStep
    /\ UNCHANGED <<ghPushed, evChan>>

\* A request of the crawler fails with an error that `?` returns from start.
CrawlerRequestFails ==
    /\ CrawlerOnly
    /\ crPc \in {"bootstrap", "running"}
    /\ Fails
    /\ crLast' = NoStep
    /\ UNCHANGED <<ghPushed, repoDb, evChan>>

\* The event or the crawling iteration returns Ok(()) and the loop of start turns.
ActivityDone ==
    /\ CrawlerOnly
    /\ crPc = "running" /\ crStage = "sweep" /\ crWork = <<>>
    /\ crRunning' = {}
    /\ crPc' = "try_recv"
    /\ crStage' = "begin"
    /\ crLast' = NoStep
    /\ UNCHANGED <<ghPushed, repoDb, evChan, crWork>>

(***************************************************************************)
(* One crawling iteration (github.rs, start_one_crawling_iteration)        *)
(***************************************************************************)
\* The ids of the users GitHub knows.
Users == {7, 8}

\* The owner of each repository.
OwnerOf(r) == IF r = 1 THEN 7 ELSE 8

NUM_RESOURCE_VISITS_PER_CRAWLING_ITERATION == 50

\* Iterator::take
Take(s, n) == SubSeq(s, 1, Min(n, Len(s)))

NoUserRow == [present |-> FALSE, visited |-> FALSE]

\* What a listing request (stargazers, a user's repos, a user's starred repos) yields:
\* the ids listed, Err(GithubResourceUnavailable), or another error.
ListClasses == {"ok", "unavailable", "error"}

NoTurn == [repo |-> 0, class |-> "none", done |-> FALSE, users |-> <<>>, edges |-> {},
           rest |-> <<>>]

\* github_user().insert_if_not_exists(&user)
UserInsertIfNotExists(users, u) ==
    IF users[u].present THEN users ELSE [users EXCEPT ![u] = [present |-> TRUE, visited |-> FALSE]]

\* The github_user().insert_if_not_exists(&entity.owner) of insert_repository_if_not_exists
\* for the repositories a call inserted.
WithOwners(users, before, after) ==
    [u \in Users |->
        IF \E r \in Repos : OwnerOf(r) = u /\ ~before[r].present /\ after[r].present
        THEN UserInsertIfNotExists(users, u)[u]
        ELSE users[u]]

\* get_and_insert_user_owned_repos: an Err of the listing is dropped by `if let Ok`.
GetAndInsertUserOwnedRepos(db, class, found, probes) ==
    IF class = "ok" THEN InsertRepos(db, SearchResult(found), probes)
    ELSE [db |-> db, err |-> FALSE]

RECURSIVE InsertStarred(_, _, _, _, _)
\* The loop of get_and_insert_user_starred_repos: insert_repository_if_not_exists(..)?,
\* then mapping_stargazer().insert(user_id, repo.id).
InsertStarred(db, edges, u, repos, probes) ==
    IF repos = <<>> THEN [db |-> db, edges |-> edges, err |-> FALSE]
    ELSE LET one == InsertRepositoryIfNotExists(db, Head(repos), probes[Head(repos).id]) IN
         IF one.err THEN [db |-> one.db, edges |-> edges, err |-> TRUE]
         ELSE InsertStarred(one.db, edges \cup {<<u, Head(repos).id>>}, u, Tail(repos), probes)

\* get_and_insert_user_starred_repos
GetAndInsertUserStarredRepos(db, edges, u, class, found, probes) ==
    IF class = "ok" THEN InsertStarred(db, edges, u, SearchResult(found), probes)
    ELSE [db |-> db, edges |-> edges, err |-> FALSE]

\* A stargazer fetch that hands every error to its caller.
GetStargazersOrFail(db, r, class, stars) ==
    [db |-> db, stars |-> IF class = "ok" THEN stars ELSE {}, err |-> class # "ok"]

\* get_stargazers_or_set_repository_deleted
GetStargazersOrSetRepositoryDeleted(db, r, class, stars) ==
    CASE class = "ok" -> [db |-> db, stars |-> stars, err |-> FALSE]
      [] class = "unavailable" ->
             [db |-> [db EXCEPT ![r] = SetDeleted(db[r])], stars |-> {}, err |-> FALSE]
      [] class = "error" -> [db |-> db, stars |-> {}, err |-> TRUE]

\* get_unvisited_solidity_repository_owners_orderd_by_added_at
UnvisitedOwners(db, users) ==
    SelectSeqBy(<<7, 8>>, {u \in Users : /\ users[u].present /\ ~users[u].visited
                                        /\ \E r \in Repos : db[r].present /\ OwnerOf(r) = u})

\* get_unvisited_ordered_by_added_at: the repositories with signatures (scraped),
\* not deleted, whose visited_at is NULL.
UnvisitedRepos(db, visitedRepos) ==
    SelectSeqBy(<<1, 2>>, {r \in Repos : /\ db[r].present /\ db[r].scraped /\ ~db[r].deleted
                                        /\ r \notin visitedRepos})

\* The iteration part while another part of the program is looked at.
IterationIdle ==
    /\ itPc = "idle"
    /\ itBatch = <<>>
    /\ itStarWork = <<>>
    /\ itUsers = [u \in Users |-> NoUserRow]
    /\ itEdges = {}
    /\ itVisited = {}
    /\ itTurn = NoTurn

\* The crawler between two turns of its loop, after its first run and after the
\* scraper has scraped what the first run found: some repositories and their owners
\* are stored, nothing has been visited.
IterationInit ==
    /\ ghPushed = [r \in Repos |-> 0]
    /\ \E known \in SUBSET Repos :
        /\ known # {}
        /\ repoDb = [r \in Repos |-> IF r \in known
                                     THEN [InsertedRow([id |-> r, pushed |-> 0]) EXCEPT !.scraped = TRUE]
                                     ELSE NoRepoRow]
        /\ itUsers = [u \in Users |-> IF \E r \in known : OwnerOf(r) = u
                                      THEN [present |-> TRUE, visited |-> FALSE]
                                      ELSE NoUserRow]
    /\ evChan = <<>>
    /\ crPc = "running"
    /\ crRunning = {"crawling"}
    /\ crStage = "begin"
    /\ crWork = <<>>
    /\ crLast = NoStep
    /\ itPc = "idle"
    /\ itBatch = <<>>
    /\ itStarWork = <<>>
    /\ itEdges = {}
    /\ itVisited = {}
    /\ itTurn = NoTurn

\* The head of start_one_crawling_iteration: the unvisited owners if there are any,
\* else the unvisited repositories, else panic!.
ItBegin ==
    /\ IterationOnly
    /\ itPc = "idle"
    /\ LET owners == UnvisitedOwners(repoDb, itUsers)
           repos == UnvisitedRepos(repoDb, itVisited) IN
        IF owners # <<>>
        THEN itPc' = "owners"
             /\ itBatch' = Take(owners, NUM_RESOURCE_VISITS_PER_CRAWLING_ITERATION)
        ELSE IF repos = <<>>
             THEN itPc' = "panicked" /\ itBatch' = <<>>
             ELSE itPc' = "repos"
                  /\ itBatch' = Take(repos, NUM_RESOURCE_VISITS_PER_CRAWLING_ITERATION)
    /\ itTurn' = NoTurn
    /\ UNCHANGED <<repoDb, itStarWork, itUsers, itEdges, itVisited>>

\* The owned and the starred repositories of user u are fetched and inserted, and the
\* user is set visited: the body both loops of the iteration run for a user.
VisitUser(db, users, edges, u, owned, starred, probes) ==
    LET a == GetAndInsertUserOwnedRepos(db, owned.class, owned.found, probes)
        b == GetAndInsertUserStarredRepos(a.db, edges, u, starred.class, starred.found, probes)
    IN  IF a.err
        THEN [db |-> a.db, users |-> WithOwners(users, db, a.db), edges |-> edges, err |-> TRUE]
        ELSE IF b.err
        THEN [db |-> b.db, users |-> WithOwners(users, db, b.db), edges |-> b.edges, err |-> TRUE]
        ELSE [db |-> b.db, users |-> WithOwners(users, db, b.db), edges |-> b.edges, err |-> FALSE]

\* One turn of the loop over the unvisited owners.
ItVisitOwner(owned, starred, probes) ==
    /\ IterationOnly
    /\ itPc = "owners" /\ itBatch # <<>>
    /\ LET u == Head(itBatch)
           res == VisitUser(repoDb, itUsers, itEdges, u, owned, starred, probes) IN
        /\ repoDb' = res.db
        /\ itEdges' = res.edges
        /\ IF res.err
           THEN /\ itPc' = "failed"
                /\ itUsers' = res.users
                /\ itBatch' = <<>>
           ELSE /\ itUsers' = [res.users EXCEPT ![u].visited = TRUE]
                /\ itBatch' = Tail(itBatch)
                /\ itPc' = itPc
    /\ itTurn' = NoTurn
    /\ UNCHANGED <<itStarWork, itVisited>>

\* let stargazers = self.get_stargazers_or_set_repository_deleted(repo.id)?
ItFetchStargazers(class, stars) ==
    /\ IterationOnly
    /\ itPc = "repos" /\ itBatch # <<>>
    /\ class # "ok" => stars = {}
    /\ LET r == Head(itBatch)
           res == GetStargazersOrSetRepositoryDeleted(repoDb, r, class, stars) IN
        /\ repoDb' = res.db
        /\ itTurn' = [repo |-> r, class |-> class, done |-> FALSE, users |-> itUsers,
                      edges |-> itEdges, rest |-> Tail(itBatch)]
        /\ IF res.err
           THEN /\ itPc' = "failed"
                /\ itBatch' = <<>>
                /\ itStarWork' = <<>>
           ELSE /\ itPc' = "stargazers"
                /\ itStarWork' = SelectSeqBy(<<7, 8>>, res.stars)
                /\ itBatch' = itBatch
    /\ UNCHANGED <<itUsers, itEdges, itVisited>>

\* One turn of `for stargazer in stargazers`.
ItStargazer(owned, starred, probes) ==
    /\ IterationOnly
    /\ itPc = "stargazers" /\ itStarWork # <<>>
    /\ LET u == Head(itStarWork)
           r == Head(itBatch)
           res == VisitUser(repoDb, UserInsertIfNotExists(itUsers, u), itEdges, u,
                            owned, starred, probes) IN
        /\ repoDb' = res.db
        /\ IF res.err
           THEN /\ itPc' = "failed"
                /\ itUsers' = res.users
                /\ itEdges' = res.edges
                /\ itBatch' = <<>>
                /\ itStarWork' = <<>>
                /\ itTurn' = NoTurn
           ELSE /\ itUsers' = [res.users EXCEPT ![u].visited = TRUE]
                /\ itEdges' = res.edges \cup {<<u, r>>}
                /\ itStarWork' = Tail(itStarWork)
                /\ UNCHANGED <<itPc, itBatch, itTurn>>
    /\ UNCHANGED itVisited

\* self.dbc.github_repository().set_visited(repo.id), and the next repository.
ItRepoDone ==
    /\ IterationOnly
    /\ itPc = "stargazers" /\ itStarWork = <<>>
    /\ itVisited' = itVisited \cup {Head(itBatch)}
    /\ itBatch' = Tail(itBatch)
    /\ itPc' = "repos"
    /\ itTurn' = [itTurn EXCEPT !.done = TRUE]
    /\ UNCHANGED <<repoDb, itStarWork, itUsers, itEdges>>

\* Ok(()): the iteration is over and the loop of start turns.
ItDone ==
    /\ IterationOnly
    /\ itPc \in {"owners", "repos"} /\ itBatch = <<>>
    /\ itPc' = "idle"
    /\ itTurn' = NoTurn
    /\ UNCHANGED <<repoDb, itBatch, itStarWork, itUsers, itEdges, itVisited>>

\* The GitHub scraper scrapes a repository the iteration inserted.
ItScraped(r) ==
    /\ IterationOnly
    /\ repoDb[r].present /\ ~repoDb[r].scraped /\ ~repoDb[r].deleted
    /\ repoDb' = [repoDb EXCEPT ![r].scraped = TRUE]
    /\ itTurn' = NoTurn
    /\ UNCHANGED <<itPc, itBatch, itStarWork, itUsers, itEdges, itVisited>>

(***************************************************************************)
(* The crawler's requests and RequestHandler::execute (api/mod.rs)         *)
(***************************************************************************)
\* The most responses classified Retry one call of execute is followed through.
MaxRetryTurns == 11

\* The call sites of the crawler that request something about one repository or one
\* user, the search, and get_abi of the Etherscan scraper.
Sites == {"stargazers", "languages", "forks", "modified_since", "user_get",
          "user_repos_crawl", "user_starred_crawl", "user_repos_check", "search",
          "contract_abi"}

\* The table whose row the request of a site is about.
SiteTarget(site) ==
    CASE site \in {"stargazers", "languages", "forks", "modified_since"} -> "repo"
      [] site \in {"user_get", "user_repos_crawl", "user_starred_crawl", "user_repos_check"} -> "user"
      [] site \in {"search", "contract_abi"} -> "none"

\* What the code around the call does with an Err of the request: "deleted" (the
\* row is set deleted and the crawler goes on), "dropped" (the error is ignored and
\* the crawler goes on) or "fatal" (`?` or `return Err(why)`: start returns it).
SiteOnErr(site, err) ==
    CASE site \in {"stargazers", "languages", "modified_since", "user_get"} ->
             IF err = "unavailable" THEN "deleted" ELSE "fatal"
      [] site \in {"user_repos_crawl", "user_starred_crawl", "contract_abi"} -> "dropped"
      [] site \in {"forks", "user_repos_check", "search"} -> "fatal"

\* The handler each call site passes to execute: GithubResponseHandler for the
\* crawler's requests, EtherscanResponseHandler for get_abi.
SiteHandler(site) == IF site = "contract_abi" THEN "etherscan" ELSE "github"

\* str::contains
Contains(s, needle) ==
    \E i \in 1..(Len(s) - Len(needle) + 1) : SubSeq(s, i, i + Len(needle) - 1) = needle

\* The bodies of a response: a text that is no JSON, or a JSON object with or
\* without the key "message".
TextBody(content) == [form |-> "text", content |-> content, message |-> <<>>]
JsonBody(message) == [form |-> "json", content |-> "", message |-> message]

\* github_parse_error_message: "n/a" for an empty body, the `message` of a JSON
\* body as serde_json prints it (in quotes), the body itself when it is no JSON;
\* `json.get("message").unwrap()` panics on a JSON body without the key.
GithubParseErrorMessage(body) ==
    IF body.form = "text"
    THEN [panics |-> FALSE, text |-> IF body.content = "" THEN "n/a" ELSE body.content]
    ELSE IF body.message = <<>> THEN [panics |-> TRUE, text |-> ""]
    ELSE [panics |-> FALSE, text |-> "\"" \o body.message[1] \o "\""]

\* What process makes of a response: Ok, Retry, RetryWithAction (cleanup,
\* refresh), RetryWithCustomSleepDuration(seconds), Err(err), or a panic.
Classified(arm) == [arm |-> arm, err |-> "none", seconds |-> 0]
ClassifiedErr(err) == [arm |-> "err", err |-> err, seconds |-> 0]
ClassifiedRetryAfter(seconds) == [arm |-> "retry_after", err |-> "none", seconds |-> seconds]

\* GithubResponseHandler::process
GithubProcess(response) ==
    CASE response.status = 200 -> Classified("ok")
      [] response.status = 304 -> Classified("ok")
      [] response.status = 401 -> Classified("cleanup")
      [] response.status = 403 ->
            LET message == GithubParseErrorMessage(response.body) IN
            IF message.panics THEN Classified("panic")
            ELSE IF Contains(message.text, "access blocked") THEN ClassifiedErr("unavailable")
            ELSE Classified("refresh")
      [] response.status \in {404, 451} -> ClassifiedErr("unavailable")
      [] OTHER -> Classified("retry")

\* The bodies Etherscan answers with: a Page {status, result}, or a text serde_json
\* does not deserialize into one.
EtherscanPage(status, result) == [form |-> "json", status |-> status, result |-> result]
NotAPage == [form |-> "text", status |-> "", result |-> ""]

\* EtherscanResponseHandler::process
EtherscanProcess(response) ==
    IF response.status = 200
    THEN IF response.body.form # "json" THEN ClassifiedErr("serde")
         ELSE IF response.body.status = "1" THEN Classified("ok")
         ELSE CASE response.body.result = "Invalid API Key" -> ClassifiedErr("etherscan_invalid_token")
                [] response.body.result = "Contract source code not verified" ->
                       ClassifiedErr("etherscan_not_verified")
                [] response.body.result = "Max rate limit reached" -> ClassifiedRetryAfter(1)
                [] OTHER -> Classified("retry")
    ELSE Classified("retry")

\* T::process(response) for the handler T of the call.
Process(handler, response) ==
    IF handler = "github" THEN GithubProcess(response) ELSE EtherscanProcess(response)

\* The responses GitHub gives: the body matters to process for a 403 only.
GithubResponses ==
    {[status |-> s, body |-> TextBody("")] : s \in {200, 304, 401, 404, 451, 500}}
    \cup {[status |-> 403, body |-> b] :
            b \in {TextBody(""), TextBody("access blocked"),
                   JsonBody(<<"Repository access blocked">>),
                   JsonBody(<<"API rate limit exceeded">>), JsonBody(<<>>)}}

\* The responses Etherscan gives.
EtherscanResponses ==
    {[status |-> 200, body |-> b] :
        b \in {EtherscanPage("1", "[]"), EtherscanPage("0", "Invalid API Key"),
               EtherscanPage("0", "Contract source code not verified"),
               EtherscanPage("0", "Max rate limit reached"), EtherscanPage("0", "Error!"),
               NotAPage}}
    \cup {[status |-> 502, body |-> NotAPage]}

Responses(handler) == IF handler = "github" THEN GithubResponses ELSE EtherscanResponses

NoResponse == [status |-> 0, body |-> TextBody("")]

\* execute when it is entered: `let mut retries = 0; let mut retries_valid = 1;`.
\* Of the last turn of the loop: the response it got (resp), the credential of the
\* request it built (bearer), the counters before it (pretries, pvalid), the sleep
\* of execute after it (slept) and the arm it took (last).
ExEntered == [retries |-> 0, retries_valid |-> 1, result |-> "none",
              k |-> 0, resent |-> 0, slept |-> 0, last |-> "none",
              resp |-> NoResponse, bearer |-> "none", pretries |-> 0, pvalid |-> 1]

\* The answers of the rate-limit endpoint cleanup and refresh get while a request
\* is executed: each token of the pool p is invalid, drained or fresh (the tokens
\* outside the pool are not asked about).
ExProbes(p) ==
    {probe \in [Tokens -> {[status |-> "invalid", core |-> 0, search |-> 0],
                           [status |-> "ok", core |-> 0, search |-> 1],
                           FreshProbe}] :
        \A t \in Tokens \ Range(p) : probe[t] = FreshProbe}

\* A token manager constructed with two configured tokens.
RequestTokens ==
    /\ pool = <<"A", "B">>
    /\ active = "A"
    /\ tmOp = "new"
    /\ tmResult = "ok"
    /\ tmSlept = 0
    /\ tmProbe = [t \in Tokens |-> FreshProbe]
    /\ tmPrevPool = pool
    /\ tmPrevActive = active

NoRequest == [site |-> "none", result |-> "none", effect |-> "none"]

RequestInit ==
    /\ rqPc = "idle"
    /\ rqSite = "search"
    /\ ex = ExEntered
    /\ rqDeleted = {}
    /\ rqLast = NoRequest

\* The crawler calls a method of the GitHub client, or the scraper get_abi of the
\* Etherscan client, which calls execute.
RqIssue(site) ==
    /\ RequestOnly
    /\ rqPc = "idle"
    /\ rqPc' = "executing"
    /\ rqSite' = site
    /\ ex' = ExEntered
    /\ rqLast' = NoRequest
    /\ rqDeleted' = {}
    /\ UNCHANGED <<pool, active>>

\* A prepare that takes the first credential of the pool.
PrepareFirstOfPool(handler) == IF handler = "github" THEN pool[1] ELSE "none"

\* T::prepare at the head of the loop body: GithubResponseHandler sets
\* bearer_auth(active) of the token manager, EtherscanResponseHandler none (the
\* `token` argument of execute is None for these calls).
Prepare(handler) == IF handler = "github" THEN active ELSE "none"

\* One turn of the loop starts: the request is built, the counters are as they are.
Turn == [ex EXCEPT !.bearer = Prepare(SiteHandler(rqSite)),
                   !.pretries = ex.retries, !.pvalid = ex.retries_valid]

\* request.send() is Err(why): `retries += 1; if retries == 5 { return Err(..) }`,
\* else the sleep at the end of the loop body.
ExSendFails ==
    /\ RequestOnly
    /\ rqPc = "executing"
    /\ IF ex.retries + 1 = 5
       THEN /\ ex' = [Turn EXCEPT !.retries = ex.retries + 1, !.result = "http_request",
                                 !.slept = 0, !.last = "transport", !.resp = NoResponse]
            /\ rqPc' = "returned"
       ELSE /\ ex' = [Turn EXCEPT !.retries = ex.retries + 1, !.resent = ex.resent + 1,
                                 !.slept = 5 * ex.retries_valid, !.last = "transport",
                                 !.resp = NoResponse]
            /\ rqPc' = rqPc
    /\ UNCHANGED <<rqSite, pool, active, rqDeleted, rqLast>>

\* A Retry arm that sleeps before it counts.
ExRetryFlat(response) ==
    /\ RequestOnly
    /\ rqPc = "executing"
    /\ Process(SiteHandler(rqSite), response).arm = "retry"
    /\ ex.k < MaxRetryTurns
    /\ ex' = [Turn EXCEPT !.retries_valid = IF ex.retries_valid < 10 THEN ex.retries_valid + 1
                                            ELSE ex.retries_valid,
                          !.k = ex.k + 1, !.slept = 5 * ex.retries_valid, !.last = "retry",
                          !.resp = response]
    /\ UNCHANGED <<rqPc, rqSite, pool, active, rqDeleted, rqLast>>

\* process gives Retry: `if retries_valid < 10 { retries_valid += 1 }`, then the
\* sleep of 5 * retries_valid seconds at the end of the loop body.
ExRetry(response) ==
    /\ RequestOnly
    /\ rqPc = "executing"
    /\ Process(SiteHandler(rqSite), response).arm = "retry"
    /\ ex.k < MaxRetryTurns
    /\ LET rv == IF ex.retries_valid < 10 THEN ex.retries_valid + 1 ELSE ex.retries_valid IN
        ex' = [Turn EXCEPT !.retries_valid = rv, !.k = ex.k + 1, !.slept = 5 * rv,
                           !.last = "retry", !.resp = response]
    /\ UNCHANGED <<rqPc, rqSite, pool, active, rqDeleted, rqLast>>

\* process gives Ok(body), which execute returns, or Err, which `T::process(response)?`
\* returns.
ExReturns(response) ==
    /\ RequestOnly
    /\ rqPc = "executing"
    /\ LET class == Process(SiteHandler(rqSite), response) IN
        /\ class.arm \in {"ok", "err"}
        /\ ex' = [Turn EXCEPT !.result = IF class.arm = "ok" THEN "ok" ELSE class.err,
                              !.slept = 0, !.last = class.arm, !.resp = response]
    /\ rqPc' = "returned"
    /\ UNCHANGED <<rqSite, pool, active, rqDeleted, rqLast>>

\* process panics (github_parse_error_message): the thread of the caller unwinds.
ExPanics(response) ==
    /\ RequestOnly
    /\ rqPc = "executing"
    /\ Process(SiteHandler(rqSite), response).arm = "panic"
    /\ ex' = [Turn EXCEPT !.slept = 0, !.last = "panic", !.resp = response]
    /\ rqPc' = "panicked"
    /\ UNCHANGED <<rqSite, pool, active, rqDeleted, rqLast>>

\* RetryWithAction(GithubCleanup): `cleanup()?; continue`.
ExCleanup(response, probe) ==
    /\ RequestOnly
    /\ rqPc = "executing"
    /\ Process(SiteHandler(rqSite), response).arm = "cleanup"
    /\ LET out == CleanupOutcome(pool, active, probe) IN
        /\ pool' = out.pool
        /\ active' = out.active
        /\ ex' = [Turn EXCEPT !.result = IF out.result = "ok" THEN "none" ELSE out.result,
                              !.slept = 0, !.last = "cleanup", !.resp = response]
        /\ rqPc' = IF out.result = "ok" THEN "executing" ELSE "returned"
    /\ UNCHANGED <<rqSite, rqDeleted, rqLast>>

\* RetryWithAction(GithubRefresh): `refresh()?; continue`.
ExRefresh(response, probe) ==
    /\ RequestOnly
    /\ rqPc = "executing"
    /\ Process(SiteHandler(rqSite), response).arm = "refresh"
    /\ LET out == RefreshOutcome(pool, active, probe) IN
        /\ active' = out.active
        /\ ex' = [Turn EXCEPT !.result = IF out.result = "ok" THEN "none" ELSE out.result,
                              !.slept = 0, !.last = "refresh", !.resp = response]
        /\ rqPc' = IF out.result = "ok" THEN "executing" ELSE "returned"
    /\ UNCHANGED <<rqSite, pool, rqDeleted, rqLast>>

\* A RetryWithCustomSleepDuration arm that goes on to the end of the loop body.
ExRetryAfterFallsThrough(response) ==
    /\ RequestOnly
    /\ rqPc = "executing"
    /\ LET class == Process(SiteHandler(rqSite), response) IN
        /\ class.arm = "retry_after"
        /\ ex' = [Turn EXCEPT !.slept = class.seconds + 5 * ex.retries_valid,
                              !.last = "retry_after", !.resp = response]
    /\ UNCHANGED <<rqPc, rqSite, pool, active, rqDeleted, rqLast>>

\* RetryWithCustomSleepDuration(duration): `sleep(duration); continue`.
ExRetryAfter(response) ==
    /\ RequestOnly
    /\ rqPc = "executing"
    /\ LET class == Process(SiteHandler(rqSite), response) IN
        /\ class.arm = "retry_after"
        /\ ex' = [Turn EXCEPT !.slept = class.seconds, !.last = "retry_after", !.resp = response]
    /\ UNCHANGED <<rqPc, rqSite, pool, active, rqDeleted, rqLast>>

\* The code around the call gets the result of the request.
RqHandle ==
    /\ RequestOnly
    /\ rqPc = "returned"
    /\ LET effect == IF ex.result = "ok" THEN "used" ELSE SiteOnErr(rqSite, ex.result) IN
        /\ rqLast' = [site |-> rqSite, result |-> ex.result, effect |-> effect]
        /\ rqDeleted' = IF effect = "deleted" THEN rqDeleted \cup {SiteTarget(rqSite)} ELSE rqDeleted
        /\ rqPc' = IF effect = "fatal" THEN "failed" ELSE "idle"
    /\ UNCHANGED <<rqSite, ex, pool, active>>

(***************************************************************************)
(* The signature parser (parser.rs)                                        *)
(***************************************************************************)
\* The most entries of an ABI array.
MaxAbiEntries == 2
\* The most signatures the pattern matches in one Solidity content.
MaxMatches == 1

\* Option<T>: None is <<>>, Some(x) is <<x>>.
Option(S) == {<<>>} \cup {<<x>> : x \in S}

RECURSIVE JoinComma(_)
\* Vec<String>::join(",")
JoinComma(types) ==
    IF types = <<>> THEN ""
    ELSE IF Len(types) = 1 THEN types[1]
    ELSE types[1] \o "," \o JoinComma(Tail(types))

\* The entries serde_json deserializes into Abi: `type` is a SignatureKind, `name`
\* and `inputs` are optional.
AbiKinds == {"function", "event", "error", "constructor"}
AbiInputs == {<<>>, <<"address">>, <<"address", "uint256">>, <<"uint256", "address", "bool">>}
AbiEntries == [kind : AbiKinds, name : Option({"f"}), inputs : Option(AbiInputs)]

\* The flag from_abi gives every signature it builds.
AbiIsValid == TRUE

RECURSIVE FromAbiAnyKind(_)
\* from_abi without the check of the entry's kind.
FromAbiAnyKind(content) ==
    IF content = <<>> THEN <<>>
    ELSE LET e == Head(content) IN
         IF e.name = <<>> THEN FromAbiAnyKind(Tail(content))
         ELSE <<NewSignatureWithMetadata(
                    e.name[1] \o "(" \o JoinComma(IF e.inputs = <<>> THEN <<>> ELSE e.inputs[1]) \o ")",
                    e.kind, AbiIsValid)>> \o FromAbiAnyKind(Tail(content))

RECURSIVE FromAbi(_)
\* from_abi on a content that deserializes: the loop over the entries.
FromAbi(content) ==
    IF content = <<>> THEN <<>>
    ELSE LET e == Head(content) IN
         IF e.kind \notin {"function", "event", "error"} THEN FromAbi(Tail(content))
         ELSE IF e.name = <<>> THEN FromAbi(Tail(content))
         ELSE <<NewSignatureWithMetadata(
                    e.name[1] \o "(" \o JoinComma(IF e.inputs = <<>> THEN <<>> ELSE e.inputs[1]) \o ")",
                    e.kind, AbiIsValid)>> \o FromAbi(Tail(content))

RECURSIVE IndexOf(_, _, _)
\* str::find: the place of the first c in s at or after i, 0 when there is none.
IndexOf(s, c, i) ==
    IF i > Len(s) THEN 0
    ELSE IF SubSeq(s, i, i) = c THEN i
    ELSE IndexOf(s, c, i + 1)

RECURSIVE LastIndexOf(_, _, _)
\* str::rfind: the place of the last c in s at or before i, 0 when there is none.
LastIndexOf(s, c, i) ==
    IF i < 1 THEN 0
    ELSE IF SubSeq(s, i, i) = c THEN i
    ELSE LastIndexOf(s, c, i - 1)

RECURSIVE Trim(_)
\* str::trim on a text whose only whitespace is the space.
Trim(s) ==
    IF s = "" THEN ""
    ELSE IF SubSeq(s, 1, 1) = " " THEN Trim(SubSeq(s, 2, Len(s)))
    ELSE IF SubSeq(s, Len(s), Len(s)) = " " THEN Trim(SubSeq(s, 1, Len(s) - 1))
    ELSE s

RECURSIVE Split(_, _)
\* str::split(c)
Split(s, c) ==
    LET i == IndexOf(s, c, 1) IN
    IF i = 0 THEN <<s>>
    ELSE <<SubSeq(s, 1, i - 1)>> \o Split(SubSeq(s, i + 1, Len(s)), c)

\* One parameter of the list: `match param.trim().split_once(' ')`.
ParamType(param) ==
    LET t == Trim(param)
        i == IndexOf(t, " ", 1)
    IN  IF i = 0 THEN t ELSE SubSeq(t, 1, i - 1)

\* param_types of get_joined_parameter_types.
ParamTypes(raw_parameter_list) ==
    LET pieces == Split(raw_parameter_list, ",") IN
    [i \in 1..Len(pieces) |-> ParamType(pieces[i])]

\* get_joined_parameter_types
GetJoinedParameterTypes(raw_parameter_list) ==
    IF Trim(raw_parameter_list) = "" THEN ""
    ELSE JoinComma(ParamTypes(raw_parameter_list))

Digits == {"0", "1", "2", "3", "4", "5", "6", "7", "8", "9"}

IsDigits(s) == \A i \in 1..Len(s) : SubSeq(s, i, i) \in Digits

StartsWith(s, prefix) == Len(s) >= Len(prefix) /\ SubSeq(s, 1, Len(prefix)) = prefix

RECURSIVE StripArraySuffixes(_)
\* The token without its trailing `[N?]` suffixes.
StripArraySuffixes(token) ==
    LET n == Len(token)
        k == LastIndexOf(token, "[", n)
    IN  IF n > 0 /\ SubSeq(token, n, n) = "]" /\ k > 0 /\ IsDigits(SubSeq(token, k + 1, n - 1))
        THEN StripArraySuffixes(SubSeq(token, 1, k - 1))
        ELSE token

\* The elementary types of the value-type grammar.
IsElementary(b) ==
    \/ b \in {"address", "bool", "string", "fixed", "ufixed"}
    \/ \E prefix \in {"bytes", "int", "uint"} :
          /\ StartsWith(b, prefix)
          /\ Len(b) - Len(prefix) <= 3
          /\ IsDigits(SubSeq(b, Len(prefix) + 1, Len(b)))

\* The value-type grammar: an elementary type and zero or more array suffixes.
IsValueType(token) == IsElementary(StripArraySuffixes(token))

\* is_valid of a signature extracted from source text.
SolIsValid(raw_parameter_list) ==
    \A t \in Range(ParamTypes(raw_parameter_list)) : t = "" \/ IsValueType(t)

\* The parameter lists between the parentheses of a match, each with the type
\* tokens a reader takes from it.
SolParams ==
    {[raw |-> "", types |-> <<>>],
     [raw |-> "  ", types |-> <<>>],
     [raw |-> "address to, uint256 amount", types |-> <<"address", "uint256">>],
     [raw |-> "MyStruct s", types |-> <<"MyStruct">>],
     [raw |-> "uint256[] memory ids", types |-> <<"uint256[]">>],
     [raw |-> "address,", types |-> <<"address", "">>],
     [raw |-> " bytes32[2][] x,bool ", types |-> <<"bytes32[2][]", "bool">>],
     [raw |-> "uint2560 y", types |-> <<"uint2560">>]}

\* The captures of one match of REGEX_SIGNATURE.
SolCaptures == [kind : {"function", "event"}, name : {"g"}, params : SolParams,
                visibility : Option({"external"})]

\* semver::Version as <<major, minor, patch>>, and its order.
VersionGE(a, b) ==
    \/ a[1] > b[1]
    \/ a[1] = b[1] /\ a[2] > b[2]
    \/ a[1] = b[1] /\ a[2] = b[2] /\ a[3] >= b[3]

\* A can_be_less_than_0_5_0 that tests every condition against 0.5.0.
CanBeLessThan050OneLimit(version, condition) ==
    ~(condition \in {">", ">=", "=", "^", "~"} /\ VersionGE(version, <<0, 5, 0>>))

\* can_be_less_than_0_5_0
CanBeLessThan050(version, condition) ==
    LET version_0_4_26 == <<0, 4, 26>>
        version_0_5 == <<0, 5, 0>>
    IN  IF condition = ">" /\ VersionGE(version, version_0_4_26) THEN FALSE
        ELSE IF condition = ">=" /\ VersionGE(version, version_0_5) THEN FALSE
        ELSE IF condition = "=" /\ VersionGE(version, version_0_4_26) /\ version # version_0_4_26
        THEN FALSE
        ELSE IF condition = "^" /\ VersionGE(version, version_0_5) THEN FALSE
        ELSE IF condition = "~" /\ VersionGE(version, version_0_5) THEN FALSE
        ELSE TRUE

\* What lenient_semver::parse makes of the version texts REGEX_PRAGMA captures:
\* Some(version), or None when the text is no version.
PragmaVersions == Option({<<0, 4, 25>>, <<0, 4, 26>>, <<0, 5, 0>>})

\* The captures of REGEX_PRAGMA: lhs_condition is optional, the right-hand side is
\* optional and has a condition when it is there.
LhsBounds == [condition : Option({"^", "~", "=", ">", "<", ">=", "<="}), version : PragmaVersions]
RhsBounds == [condition : {"^", "~", ">", "<", ">=", "<="}, version : PragmaVersions]
Pragmas == Option([lhs : LhsBounds, rhs : Option(RhsBounds)])

\* `None => Condition::Equals`
ConditionOf(capture) == IF capture = <<>> THEN "=" ELSE capture[1]

\* can_assign_public_visibility: "true", "false", or "err" (Error::ParsePragma).
CanAssignPublicVisibility(pragma) ==
    IF pragma = <<>> THEN "true"
    ELSE LET lhs == pragma[1].lhs
             rhs == pragma[1].rhs
         IN  IF lhs.version = <<>> THEN "err"
             ELSE IF rhs # <<>>
             THEN IF rhs[1].version = <<>> THEN "err"
                  ELSE IF /\ CanBeLessThan050(lhs.version[1], ConditionOf(lhs.condition))
                          /\ CanBeLessThan050(rhs[1].version[1], rhs[1].condition)
                       THEN "true" ELSE "false"
             ELSE IF CanBeLessThan050(lhs.version[1], ConditionOf(lhs.condition))
                  THEN "true" ELSE "false"

\* The pragmas of the contents whose parameter lists are looked at: none, 0.4.25,
\* ^0.5.0 and one whose version does not parse.
SolPragmas ==
    {<<>>,
     <<[lhs |-> [condition |-> <<>>, version |-> <<<<0, 4, 25>>>>], rhs |-> <<>>]>>,
     <<[lhs |-> [condition |-> <<"^">>, version |-> <<<<0, 5, 0>>>>], rhs |-> <<>>]>>,
     <<[lhs |-> [condition |-> <<"^">>, version |-> <<>>], rhs |-> <<>>]>>}

\* A content: its matches of REGEX_SIGNATURE and its match of REGEX_PRAGMA.
SolContents == [matches : SeqsUpTo(SolCaptures, MaxMatches), pragma : SolPragmas]

\* The contents whose visibility is looked at: functions with and without a
\* visibility keyword and an event, under every pragma.
VisCaptures ==
    [kind : {"function"}, name : {"g"}, params : {[raw |-> "", types |-> <<>>]},
     visibility : Option({"external", "public", "internal", "private"})]
    \cup [kind : {"event"}, name : {"g"}, params : {[raw |-> "", types |-> <<>>]},
          visibility : {<<>>}]
VisContents == [matches : SeqsUpTo(VisCaptures, MaxMatches), pragma : Pragmas]

\* The `visibility` match of from_sol: Some(visibility), or None where the loop
\* continues without pushing the signature.
SolVisibility(capture, pragma) ==
    IF capture.kind = "function"
    THEN IF capture.visibility # <<>> THEN capture.visibility
         ELSE IF CanAssignPublicVisibility(pragma) = "true" THEN <<"public">> ELSE <<>>
    ELSE <<"public">>

\* Whether the signature of a match is pushed.
SolPushed(capture, pragma) == SolVisibility(capture, pragma) # <<>>

\* The signature from_sol pushes: SignatureWithMetadata::new and the visibility
\* from_sol decided on.
SolSignature(text, kind, is_valid, visibility) ==
    NewSignatureWithMetadata(text, kind, is_valid) @@ [visibility |-> visibility]

RECURSIVE FromSolDropsInvalid(_, _)
\* from_sol leaving out the signatures that are not valid.
FromSolDropsInvalid(matches, pragma) ==
    IF matches = <<>> THEN <<>>
    ELSE LET c == Head(matches) IN
         IF SolPushed(c, pragma) /\ SolIsValid(c.params.raw)
         THEN <<SolSignature(c.name \o "(" \o GetJoinedParameterTypes(c.params.raw) \o ")",
                             c.kind, TRUE, SolVisibility(c, pragma)[1])>>
              \o FromSolDropsInvalid(Tail(matches), pragma)
         ELSE FromSolDropsInvalid(Tail(matches), pragma)

RECURSIVE FromSol(_, _)
\* from_sol: the loop over the matches.
FromSol(matches, pragma) ==
    IF matches = <<>> THEN <<>>
    ELSE LET c == Head(matches) IN
         IF SolPushed(c, pragma)
         THEN <<SolSignature(c.name \o "(" \o GetJoinedParameterTypes(c.params.raw) \o ")",
                             c.kind, SolIsValid(c.params.raw), SolVisibility(c, pragma)[1])>>
              \o FromSol(Tail(matches), pragma)
         ELSE FromSol(Tail(matches), pragma)

ParserIdle ==
    /\ paPc = "idle"
    /\ paAbi = <<>>
    /\ paSol = [matches |-> <<>>, pragma |-> <<>>]
    /\ paOut = <<>>

\* A scraper is about to call the parser with a content it downloaded.
ParserInit ==
    \/ /\ paPc = "call_abi"
       /\ paAbi \in SeqsUpTo(AbiEntries, MaxAbiEntries)
       /\ paSol = [matches |-> <<>>, pragma |-> <<>>]
       /\ paOut = <<>>
    \/ /\ paPc = "call_sol"
       /\ paAbi = <<>>
       /\ paSol \in SolContents
       /\ paOut = <<>>

\* parser::from_abi(&content) returns.
ParseAbi ==
    /\ ParserOnly
    /\ paPc = "call_abi"
    /\ paPc' = "abi"
    /\ paOut' = FromAbi(paAbi)
    /\ UNCHANGED <<paAbi, paSol>>

\* parser::from_sol(&content) returns.
ParseSol ==
    /\ ParserOnly
    /\ paPc = "call_sol"
    /\ paPc' = "sol"
    /\ paOut' = FromSol(paSol.matches, paSol.pragma)
    /\ UNCHANGED <<paAbi, paSol>>

(***************************************************************************)
(* The workers inserting their observations (scraper/*.rs, fetcher/fourbyte.rs) *)
(***************************************************************************)
\* The most observations the workers make.
MaxObservations == 2

\* The three mapping_signature_* tables.
Tables == {"github", "etherscan", "fourbyte"}

\* What a worker holds when it calls insert: the signature the parser or the 4Byte
\* client built, the table of the worker and the id of the repository or contract
\* (0 for the registry, whose table has no source column).
ObservedFromSol ==
    {[table |-> "github", source |-> 1, via |-> "sol", sig |-> FromSol(<<c>>, <<>>)[1]] :
        c \in {c \in SolCaptures : c.params.raw \in {"MyStruct s", "address to, uint256 amount"}}}
ObservedFromAbi ==
    {[table |-> t, source |-> 1, via |-> "abi", sig |-> FromAbi(<<e>>)[1]] :
        t \in {"github", "etherscan"},
        e \in [kind : {"function", "event"}, name : {<<"g">>},
               inputs : {<<<<"MyStruct">>>>, <<<<"address", "uint256">>>>}]}
ObservedFromRegistry ==
    {[table |-> "fourbyte", source |-> 0, via |-> "registry",
      sig |-> NewSignatureWithMetadata(text, kind, TRUE)] :
        text \in {"g(MyStruct)", "g(address,uint256)"}, kind \in {"function", "event"}}
Observations == ObservedFromSol \cup ObservedFromAbi \cup ObservedFromRegistry

NoInsert == [table |-> "none", key |-> <<0, 0, "">>, existed |-> FALSE, count |-> 0, stored |-> {},
             tagged |-> FALSE, tags |-> 0]

\* The rows of a mapping table with the composite key (signature_id, source id, kind).
WithKey(edges, key) ==
    {e \in edges : <<e.signature_id, e.source, e.kind>> = key}

\* An insert that replaces the row of the same key.
MappingInsertOrUpdate(edges, entity) ==
    (edges \ WithKey(edges, <<entity.signature_id, entity.source, entity.kind>>)) \cup {entity}

\* Mapping*Handler::insert: insert_into(..).values(entity).on_conflict_do_nothing()
MappingInsert(edges, entity) ==
    IF WithKey(edges, <<entity.signature_id, entity.source, entity.kind>>) # {}
    THEN edges
    ELSE edges \cup {entity}

\* The body of the scrapers' and the fetcher's loop over the signatures: the
\* signature is inserted, then the mapping row with the id insert returned.
IngestOne(st, o, now) ==
    LET ins == SignatureInsert(st.rows, st.nextId, st.kinds, o.sig)
        entity == [signature_id |-> ins.row.id, source |-> o.source, kind |-> o.sig.kind,
                   added_at |-> now]
    IN  [rows |-> ins.rows, nextId |-> ins.nextId, kinds |-> ins.kinds,
         edges |-> [st.edges EXCEPT ![o.table] = MappingInsert(st.edges[o.table], entity)],
         entity |-> entity]

RECURSIVE IngestAll(_, _, _)
\* The observations of a sequence inserted one after the other.
IngestAll(st, order, now) ==
    IF order = <<>> THEN st
    ELSE IngestAll(IngestOne(st, Head(order), now), Tail(order), now + 1)

EmptyStore == [rows |-> {}, nextId |-> 1, kinds |-> {}, edges |-> [t \in Tables |-> {}]]

IngestIdle ==
    /\ inAll = {}
    /\ inPending = {}
    /\ inEdges = [t \in Tables |-> {}]
    /\ inNow = 0
    /\ inLast = NoInsert

\* The workers start on an empty database with what they are going to observe.
IngestInit ==
    /\ inAll \in {S \in SUBSET Observations : Cardinality(S) \in 1..MaxObservations}
    /\ inPending = inAll
    /\ inEdges = [t \in Tables |-> {}]
    /\ inNow = 0
    /\ inLast = NoInsert

\* A worker inserts the signature it observed and its mapping row.
Ingest(o) ==
    /\ IngestOnly
    /\ o \in inPending
    /\ LET st == [rows |-> sigRows, nextId |-> sigNextId, kinds |-> sigKinds, edges |-> inEdges]
           out == IngestOne(st, o, inNow)
           key == <<out.entity.signature_id, out.entity.source, out.entity.kind>>
       IN  /\ sigRows' = out.rows
           /\ sigNextId' = out.nextId
           /\ sigKinds' = out.kinds
           /\ inEdges' = out.edges
           /\ inLast' = [table |-> o.table, key |-> key,
                         existed |-> WithKey(inEdges[o.table], key) # {},
                         count |-> Cardinality(inEdges[o.table]),
                         stored |-> WithKey(inEdges[o.table], key),
                         tagged |-> <<out.entity.signature_id, o.sig.kind>> \in sigKinds,
                         tags |-> Cardinality(sigKinds)]
    /\ inPending' = inPending \ {o}
    /\ inNow' = inNow + 1
    /\ UNCHANGED inAll

\* A worker comes upon a source it has inserted before (a repository scraped again
\* after an update, a page of the registry read again).
Reobserve(o) ==
    /\ IngestOnly
    /\ inPending = {}
    /\ o \in inAll
    /\ inNow < 2 * MaxObservations
    /\ inPending' = {o}
    /\ UNCHANGED <<tableVars, inAll, inEdges, inNow, inLast>>

(***************************************************************************)
(* FourbyteClient (api/fourbyte.rs)                                        *)
(***************************************************************************)
NoCall == [e |-> "none", before |-> [e \in Kinds |-> 0], list |-> <<>>, requested |-> FALSE,
           result |-> "no_call", page |-> <<>>]

\* A client that was never constructed.
ClientIdle ==
    /\ clUp = [e \in Kinds |-> <<>>]
    /\ clNext = [e \in Kinds |-> 0]
    /\ clRet = NoCall

\* FourbyteClient::new: both links point to ?page=1.
ClientInit ==
    /\ clUp = [e \in Kinds |-> <<>>]
    /\ clNext = [e \in Kinds |-> 1]
    /\ clRet = NoCall

\* Somebody submits a signature to 4Byte: it becomes the newest of its endpoint.
ClSubmit(e, text) ==
    /\ ClientOnly
    /\ Len(clUp[e]) < MaxUpstream
    /\ text \notin Range(clUp[e])
    /\ clUp' = [clUp EXCEPT ![e] = <<text>> \o clUp[e]]
    /\ UNCHANGED <<clNext, clRet>>

\* let mut fbc = FourbyteClient::new()
ClNew ==
    /\ ClientOnly
    /\ clRet # NoCall
    /\ clNext' = [e \in Kinds |-> 1]
    /\ clRet' = NoCall
    /\ UNCHANGED clUp

\* A page method that keeps one link for both endpoints.
ClPageOneCursor(e) ==
    /\ ClientOnly
    /\ IF clNext[e] # 0
       THEN /\ clNext' = [k \in Kinds |-> PageNext(clUp[e], clNext[e])]
            /\ clRet' = [e |-> e, before |-> clNext, list |-> clUp[e], requested |-> TRUE,
                         result |-> "some", page |-> PageSignatures(clUp[e], clNext[e], e)]
       ELSE /\ clNext' = clNext
            /\ clRet' = [e |-> e, before |-> clNext, list |-> clUp[e], requested |-> FALSE,
                         result |-> "none", page |-> <<>>]
    /\ UNCHANGED clUp

\* page_function_signature / page_event_signature when the request succeeds:
\* `if let Some(url) = self.page_next_..` requests the page, stores its `next` and
\* returns Ok(Some(signatures)); otherwise Ok(None).
ClPage(e) ==
    /\ ClientOnly
    /\ IF clNext[e] # 0
       THEN /\ clNext' = [clNext EXCEPT ![e] = PageNext(clUp[e], clNext[e])]
            /\ clRet' = [e |-> e, before |-> clNext, list |-> clUp[e], requested |-> TRUE,
                         result |-> "some", page |-> PageSignatures(clUp[e], clNext[e], e)]
       ELSE /\ clNext' = clNext
            /\ clRet' = [e |-> e, before |-> clNext, list |-> clUp[e], requested |-> FALSE,
                         result |-> "none", page |-> <<>>]
    /\ UNCHANGED clUp

\* The `?` of execute_deser: the request or the deserialization fails, the method
\* returns the error and the link stays.
ClPageFails(e) ==
    /\ ClientOnly
    /\ clNext[e] # 0
    /\ clRet' = [e |-> e, before |-> clNext, list |-> clUp[e], requested |-> TRUE,
                 result |-> "err", page |-> <<>>]
    /\ UNCHANGED <<clUp, clNext>>

(***************************************************************************)
(* The units of work of the crawler and the scrapers, write by write       *)
(* (fetcher/github.rs, scraper/github.rs, scraper/etherscan.rs)            *)
(***************************************************************************)
\* The contracts the Etherscan fetcher stored.
Contracts == {21}

\* One write to the database: the operation and the id it is about.
Did(op, id) == [op |-> op, id |-> id]

\* No repository's insert_repository_if_not_exists returns an Err.
NoFault == 0

\* What a listing of a user's repositories answers: the repositories, or an Err.
Listings == [class : {"error"}, found : {<<>>}] \cup [class : {"ok"}, found : {<<>>, <<1>>, <<2, 1>>}]

\* What the stargazer listing of a repository answers.
StargazerListings ==
    [class : {"error", "unavailable"}, found : {<<>>}]
        \cup [class : {"ok"}, found : {<<>>, <<7>>, <<8, 7>>}]

\* What a scraper gets out of one source of signatures: read is "ok" with the
\* signatures the parser returned, "unreadable" (read_to_string or get_abi is an Err)
\* or "invalid" (from_abi is an Err).
Sources ==
    [read : {"unreadable", "invalid"}, sigs : {<<>>}] \cup [read : {"ok"}, sigs : {<<>>, <<1>>, <<1, 2>>}]

\* The files a clone holds.
ScrapedFiles ==
    {<<>>, <<[read |-> "ok", sigs |-> <<1>>]>>,
     <<[read |-> "unreadable", sigs |-> <<>>], [read |-> "ok", sigs |-> <<1, 2>>]>>,
     <<[read |-> "ok", sigs |-> <<2>>], [read |-> "invalid", sigs |-> <<>>]>>,
     <<[read |-> "ok", sigs |-> <<1>>], [read |-> "ok", sigs |-> <<2>>]>>}

RECURSIVE InsertListed(_, _, _)
\* `for repo in repos` of get_and_insert_user_owned_repos (user 0) and of
\* get_and_insert_user_starred_repos: insert_repository_if_not_exists(..)?, and for
\* a starred repository the stargazer edge. fault is the repository for which
\* insert_repository_if_not_exists returns an Err.
InsertListed(repos, user, fault) ==
    IF repos = <<>> THEN [log |-> <<>>, err |-> FALSE]
    ELSE IF Head(repos) = fault THEN [log |-> <<>>, err |-> TRUE]
    ELSE LET rest == InsertListed(Tail(repos), user, fault) IN
         [log |-> <<Did("repository", Head(repos))>>
                      \o (IF user = 0 THEN <<>> ELSE <<Did("starred", Head(repos))>>)
                      \o rest.log,
          err |-> rest.err]

\* get_and_insert_user_owned_repos(id, true)?; get_and_insert_user_starred_repos(id, true)?
\* An Err of a listing is dropped by `if let Ok`.
InsertOwnedAndStarred(u, owned, starred, fault) ==
    LET a == IF owned.class = "ok" THEN InsertListed(owned.found, 0, fault)
             ELSE [log |-> <<>>, err |-> FALSE]
        b == IF starred.class = "ok" THEN InsertListed(starred.found, u, fault)
             ELSE [log |-> <<>>, err |-> FALSE]
    IN  IF a.err THEN a ELSE [log |-> a.log \o b.log, err |-> b.err]

\* The turn for an owner with set_visited made before the repositories are fetched.
OwnerTurnFlagFirst(u, owned, starred, fault) ==
    LET v == InsertOwnedAndStarred(u, owned, starred, fault) IN
    [log |-> <<Did("user_visited", u)>> \o v.log, err |-> v.err]

\* One turn of the loop over the unvisited owners.
OwnerTurn(u, owned, starred, fault) ==
    LET v == InsertOwnedAndStarred(u, owned, starred, fault) IN
    IF v.err THEN v ELSE [log |-> v.log \o <<Did("user_visited", u)>>, err |-> FALSE]

RECURSIVE Stargazers(_, _, _, _, _)
\* `for stargazer in stargazers`: answers and faults give, for each stargazer, what
\* the listings answer and which insert_repository_if_not_exists is an Err.
Stargazers(stars, r, owned, starred, faults) ==
    IF stars = <<>> THEN [log |-> <<>>, err |-> FALSE]
    ELSE LET u == Head(stars)
             v == InsertOwnedAndStarred(u, owned, starred, faults[u])
             rest == Stargazers(Tail(stars), r, owned, starred, faults) IN
         IF v.err THEN [log |-> <<Did("user", u)>> \o v.log, err |-> TRUE]
         ELSE [log |-> <<Did("user", u)>> \o v.log
                           \o <<Did("stargazer", u), Did("user_visited", u)>> \o rest.log,
               err |-> rest.err]

\* One turn of the loop over the unvisited repositories.
RepositoryTurn(r, listing, owned, starred, faults) ==
    CASE listing.class = "error" -> [log |-> <<>>, err |-> TRUE]
      [] listing.class = "unavailable" ->
             [log |-> <<Did("repository_deleted", r), Did("repository_visited", r)>>, err |-> FALSE]
      [] listing.class = "ok" ->
             LET s == Stargazers(listing.found, r, owned, starred, faults) IN
             IF s.err THEN s ELSE [log |-> s.log \o <<Did("repository_visited", r)>>, err |-> FALSE]

RECURSIVE InsertSignatures(_)
\* `for signature in signatures`: the signature is inserted, then its edge.
InsertSignatures(sigs) ==
    IF sigs = <<>> THEN <<>>
    ELSE <<Did("signature", Head(sigs)), Did("edge", Head(sigs))>> \o InsertSignatures(Tail(sigs))

RECURSIVE ScrapeFiles(_)
\* `for file in get_sol_files(&clone_name)`: a file that cannot be read or is no
\* valid JSON ABI is passed over.
ScrapeFiles(files) ==
    IF files = <<>> THEN <<>>
    ELSE (IF Head(files).read = "ok" THEN InsertSignatures(Head(files).sigs) ELSE <<>>)
             \o ScrapeFiles(Tail(files))

\* One turn of the GitHub scraper's loop over the unscraped repositories: the writes
\* it makes, in their order. clone is what `git clone` did ("not_run": the command
\* could not be run), get what the repository request answered after a failed clone.
ScrapeRepository(r, clone, get, files) ==
    CASE clone = "not_run" -> <<>>
      [] clone = "failed" ->
             (CASE get = "ok" -> <<Did("repository_scraped", r)>>
                [] get = "unavailable" -> <<Did("repository_deleted", r)>>
                [] get = "error" -> <<>>)
      [] clone = "ok" -> ScrapeFiles(files) \o <<Did("repository_scraped", r)>>

\* One turn of the Etherscan scraper's loop over the unvisited contracts.
ScrapeContract(c, abi) ==
    IF abi.read = "unreadable" THEN <<>>
    ELSE (IF abi.read = "ok" THEN InsertSignatures(abi.sigs) ELSE <<>>)
             \o <<Did("contract_scraped", c)>>

\* The lifecycle columns: visited_at of github_user and github_repository, scraped_at
\* and is_deleted of github_repository, scraped_at of etherscan_contract.
FlagOps == {"user_visited", "repository_visited", "repository_scraped", "repository_deleted",
            "contract_scraped"}

\* The lifecycle columns a sequence of writes sets.
FlagsOf(log) == {<<e.op, e.id>> : e \in {x \in Range(log) : x.op \in FlagOps}}

NoUnit == [kind |-> "none", id |-> 0, clone |-> "none", returned |-> {}, stars |-> <<>>,
           files |-> <<>>, log |-> <<>>]

\* The units of work while another part of the program is looked at.
LifecycleIdle ==
    /\ lcFlags = {}
    /\ lcCrawler = "running"
    /\ lcScraper = "running"
    /\ lcUnit = NoUnit

\* Repository 1 of owner 7 is stored, contract 21 is stored, nothing is flagged.
LifecycleInit == LifecycleIdle

\* What the listings returned to a turn for a user.
Returned(owned, starred) == Range(owned.found) \cup Range(starred.found)

\* The crawler's turn for the unvisited owner u of a repository.
LcOwner(u, owned, starred, fault) ==
    /\ LifecycleOnly
    /\ lcCrawler = "running"
    /\ u = OwnerOf(1) /\ <<"user_visited", u>> \notin lcFlags
    /\ LET turn == OwnerTurn(u, owned, starred, fault) IN
        /\ lcFlags' = lcFlags \cup FlagsOf(turn.log)
        /\ lcCrawler' = IF turn.err THEN "failed" ELSE "running"
        /\ lcUnit' = [NoUnit EXCEPT !.kind = "owner", !.id = u, !.log = turn.log,
                                    !.returned = Returned(owned, starred)]
    /\ UNCHANGED lcScraper

\* The crawler's turn for the unvisited repository r: there is no unvisited owner,
\* and the repository has signatures and is not deleted.
LcRepository(r, listing, owned, starred, faults) ==
    /\ LifecycleOnly
    /\ lcCrawler = "running"
    /\ <<"user_visited", OwnerOf(r)>> \in lcFlags
    /\ <<"repository_scraped", r>> \in lcFlags
    /\ <<"repository_deleted", r>> \notin lcFlags
    /\ <<"repository_visited", r>> \notin lcFlags
    /\ LET turn == RepositoryTurn(r, listing, owned, starred, faults) IN
        /\ lcFlags' = lcFlags \cup FlagsOf(turn.log)
        /\ lcCrawler' = IF turn.err THEN "failed" ELSE "running"
        /\ lcUnit' = [NoUnit EXCEPT !.kind = "repository", !.id = r, !.log = turn.log,
                                    !.stars = listing.found,
                                    !.returned = Returned(owned, starred)]
    /\ UNCHANGED lcScraper

\* The GitHub scraper's turn for the unscraped repository r; removed is whether
\* remove_dir_all succeeded.
LcScrape(r, clone, get, files, removed) ==
    /\ LifecycleOnly
    /\ lcScraper = "running"
    /\ <<"repository_scraped", r>> \notin lcFlags
    /\ <<"repository_deleted", r>> \notin lcFlags
    /\ clone # "failed" => get = "ok"
    /\ clone # "ok" => files = <<>> /\ removed
    /\ LET log == ScrapeRepository(r, clone, get, files) IN
        /\ lcFlags' = lcFlags \cup FlagsOf(log)
        /\ lcUnit' = [NoUnit EXCEPT !.kind = "scrape", !.id = r, !.clone = clone,
                                    !.files = files, !.log = log]
    /\ lcScraper' = IF removed THEN "running" ELSE "failed"
    /\ UNCHANGED lcCrawler

\* The Etherscan scraper's turn for the unvisited contract c.
LcContract(c, abi) ==
    /\ LifecycleOnly
    /\ <<"contract_scraped", c>> \notin lcFlags
    /\ LET log == ScrapeContract(c, abi) IN
        /\ lcFlags' = lcFlags \cup FlagsOf(log)
        /\ lcUnit' = [NoUnit EXCEPT !.kind = "contract", !.id = c, !.files = <<abi>>, !.log = log]
    /\ UNCHANGED <<lcCrawler, lcScraper>>

(***************************************************************************)
(* A discovered repository, its parent and the parent's forks              *)
(* (fetcher/github.rs, insert_repository_if_not_exists)                    *)
(***************************************************************************)
\* Repository 1 and two repositories forked from it.
ForkRepos == {1, 2, 3}

\* What GitHub reports: for each repository the id of its `source` (fork_parent, 0
\* for None) and the list of its forks. Repositories 2 and 3 are forks of 1, listed
\* in one of the two orders; or, in a malformed payload, the source of 3 is 2, which
\* carries a source of its own.
ForkPayloads ==
    {[source |-> <<0, 1, 1>>, forks |-> <<<<2, 3>>, <<>>, <<>>>>],
     [source |-> <<0, 1, 1>>, forks |-> <<<<3, 2>>, <<>>, <<>>>>],
     [source |-> <<0, 1, 2>>, forks |-> <<<<2>>, <<3>>, <<>>>>]}

\* entity.fork_parent: the id of the parent GitHub reports, 0 for None.
ForkParent(gh, r) == gh.source[r]

\* What the language request of a repository answers: a Solidity ratio (in
\* hundredths), Err(GithubResourceUnavailable), or another error.
RatioProbes ==
    [class : {"ok"}, ratio : {0, 50}] \cup [class : {"unavailable", "error"}, ratio : {0}]

NoForkRow == [present |-> FALSE, ratio |-> 0, deleted |-> FALSE]

\* No discovery has been handled.
NoDiscovery == [entity |-> 0, inserts |-> <<>>, probed |-> {}, listed |-> {}, deepest |-> 0,
                before |-> <<>>]

\* GithubRepositoryHandler::insert: a plain INSERT whose result is unwrapped, into a
\* table whose primary key is id. st is the database, the inserts made so far, the
\* ids probed so far and how the call stands (ok, err, panicked).
RepositoryInsert(st, id, ratio, via) ==
    IF st.db[id].present
    THEN [st EXCEPT !.status = "panicked",
                    !.inserts = Append(@, [id |-> id, ratio |-> ratio, via |-> via, fresh |-> FALSE])]
    ELSE [st EXCEPT !.db[id] = [present |-> TRUE, ratio |-> ratio, deleted |-> FALSE],
                    !.inserts = Append(@, [id |-> id, ratio |-> ratio, via |-> via, fresh |-> TRUE])]

RECURSIVE InsertForks(_, _, _)
\* for fork in self.ghc.repos(parent.id).forks()? { .. insert(&fork, ratio, true) }
InsertForks(st, forks, ratio) ==
    IF forks = <<>> \/ st.status # "ok" THEN st
    ELSE InsertForks(RepositoryInsert(st, Head(forks), ratio, "fork"), Tail(forks), ratio)

\* The row is found and written back as a row that was just inserted.
FoundAgainReset(st, id) ==
    [st EXCEPT !.db[id] = [present |-> TRUE, ratio |-> 0, deleted |-> FALSE]]

\* if let Some(repo) = get_by_id(entity.id) { if repo.is_deleted { set_undeleted } return Ok(()) }
FoundAgain(st, id) ==
    IF st.db[id].deleted THEN [st EXCEPT !.db[id].deleted = FALSE] ELSE st

RECURSIVE InsertRepositoryWithForks(_, _, _, _)
\* insert_repository_if_not_exists(entity, crawled) for an entity that may be a fork.
\* gh is GitHub (which repositories were created before 2018, the source and the fork
\* list of each, what each language request answers, whether the fork listing fails).
\* st.depth is the depth of this call, st.deepest the deepest call so far.
InsertRepositoryWithForks(st, id, via, gh) ==
    IF st.db[id].present
    THEN FoundAgain(st, id)
    ELSE LET inserted == RepositoryInsert(st, id, 0, via) IN
         IF gh.old[id] THEN inserted
         ELSE LET probed == [inserted EXCEPT !.probed = @ \cup {id}]
                  answer == gh.probe[id] IN
              CASE answer.class = "unavailable" -> [probed EXCEPT !.db[id].deleted = TRUE]
                [] answer.class = "error" -> [probed EXCEPT !.status = "err"]
                [] answer.class = "ok" ->
                       LET rated == [probed EXCEPT !.db[id].ratio = answer.ratio] IN
                       IF ForkParent(gh, id) = 0 THEN rated
                       ELSE LET deeper == [rated EXCEPT
                                              !.depth = @ + 1,
                                              !.deepest = IF @ > rated.depth THEN @ ELSE rated.depth + 1]
                                parent == [InsertRepositoryWithForks(deeper, ForkParent(gh, id), "parent", gh)
                                               EXCEPT !.depth = rated.depth] IN
                            IF parent.status # "ok" THEN parent
                            ELSE LET listing == [parent EXCEPT !.listed = @ \cup {ForkParent(gh, id)}] IN
                                 IF gh.forks_fail THEN [listing EXCEPT !.status = "err"]
                                 ELSE InsertForks(listing, gh.forks[ForkParent(gh, id)], answer.ratio)

\* The fork part while another part of the program is looked at.
ForkIdle ==
    /\ fkGithub = [old |-> <<>>, source |-> <<>>, forks |-> <<>>]
    /\ fkDb = <<>>
    /\ fkPc = "idle"
    /\ fkLast = NoDiscovery

\* The crawler is running and the table is empty; any of the repositories may be
\* from before 2018.
ForkInit ==
    /\ \E old \in [ForkRepos -> BOOLEAN] : \E payload \in ForkPayloads :
           fkGithub = [old |-> old, source |-> payload.source, forks |-> payload.forks]
    /\ fkDb = [r \in ForkRepos |-> NoForkRow]
    /\ fkPc = "running"
    /\ fkLast = NoDiscovery

\* The crawler meets repository `entity` (in a search result, a user's repositories
\* or stars) and calls insert_repository_if_not_exists for it.
Discover(entity, probe, forks_fail) ==
    /\ ForkOnly
    /\ fkPc = "running"
    /\ LET gh == [old |-> fkGithub.old, source |-> fkGithub.source, forks |-> fkGithub.forks,
                  probe |-> probe, forks_fail |-> forks_fail]
           out == InsertRepositoryWithForks(
                      [db |-> fkDb, inserts |-> <<>>, probed |-> {}, listed |-> {}, depth |-> 1,
                       deepest |-> 1, status |-> "ok"],
                      entity, "first", gh) IN
        /\ fkDb' = out.db
        /\ fkPc' = CASE out.status = "ok" -> "running"
                     [] out.status = "err" -> "failed"
                     [] out.status = "panicked" -> "panicked"
        /\ fkLast' = [entity |-> entity, inserts |-> out.inserts, probed |-> out.probed,
                      listed |-> out.listed, deepest |-> out.deepest, before |-> fkDb]
    /\ UNCHANGED fkGithub

(***************************************************************************)
(* The loop of GithubCrawler::start, turn by turn, and the timestamps of   *)
(* github_crawler_metadata (fetcher/github.rs, github_crawler_metadata.rs) *)
(***************************************************************************)
\* The most messages that wait in the channel.
MaxWaiting == 2

\* The latest reading of the clock.
MaxClock == 4

\* The calls of an event's arm that can return an Err: Event::SearchRepositories
\* makes two (insert_recently_created.., upsert_recently_updated..), the others one.
StepsOf(ev) == IF ev = "SearchRepositories" THEN 2 ELSE 1

\* No turn of the loop has been made since the last message was posted.
NoLoopTurn == [ran |-> "none", date |-> 0, failed_at |-> 0, queue |-> <<>>, meta |-> <<>>]

\* An event's arm that writes the timestamp before it runs the event.
RunEventStampsFirst(meta, msg, failed_at) ==
    [meta |-> [meta EXCEPT ![msg.event] = msg.new_event_date], err |-> failed_at # 0]

\* The arm of an event: its calls, each left through `?` on an Err, then
\* crawler_metadata().update_last_*_date(msg.new_event_date). failed_at is the call
\* that returns an Err, 0 if none does.
RunEvent(meta, msg, failed_at) ==
    IF failed_at # 0 THEN [meta |-> meta, err |-> TRUE]
    ELSE [meta |-> [meta EXCEPT ![msg.event] = msg.new_event_date], err |-> FALSE]

\* The loop while another part of the program is looked at.
EventIdle ==
    /\ evQueue = <<>>
    /\ evMeta = <<>>
    /\ evNow = 0
    /\ evPc = "idle"
    /\ evLast = NoLoopTurn

\* start has spawned the three timer threads and enters its loop; the migration has
\* created the metadata row.
EventInit ==
    /\ evQueue = <<>>
    /\ evMeta = [ev \in Events |-> 0]
    /\ evNow = 1
    /\ evPc = "looping"
    /\ evLast = NoLoopTurn

\* A timer thread: tx.send(ChannelMessage { event, new_event_date: Utc::now() }).
EvPost(ev) ==
    /\ EventOnly
    /\ Len(evQueue) < MaxWaiting /\ evNow < MaxClock
    /\ evQueue' = Append(evQueue, [event |-> ev, new_event_date |-> evNow])
    /\ evNow' = evNow + 1
    /\ evLast' = NoLoopTurn
    /\ UNCHANGED <<evMeta, evPc>>

\* A turn of the loop that receives the message posted last.
EvTurnNewestFirst(failed_at, crawl) ==
    /\ EventOnly
    /\ evPc = "looping"
    /\ IF evQueue # <<>>
       THEN LET msg == evQueue[Len(evQueue)]
                out == RunEvent(evMeta, msg, failed_at) IN
            /\ failed_at <= StepsOf(msg.event) /\ crawl = "ok"
            /\ evQueue' = SubSeq(evQueue, 1, Len(evQueue) - 1)
            /\ evMeta' = out.meta
            /\ evPc' = IF out.err THEN "failed" ELSE "looping"
            /\ evLast' = [ran |-> msg.event, date |-> msg.new_event_date, failed_at |-> failed_at,
                          queue |-> evQueue, meta |-> evMeta]
       ELSE /\ failed_at = 0
            /\ evPc' = CASE crawl = "ok" -> "looping" [] crawl = "err" -> "failed"
                         [] crawl = "panic" -> "panicked"
            /\ evLast' = [ran |-> "crawling", date |-> 0, failed_at |-> 0, queue |-> evQueue,
                          meta |-> evMeta]
            /\ UNCHANGED <<evQueue, evMeta>>
    /\ UNCHANGED evNow

\* One turn of the loop: match rx.try_recv() { Ok(msg) => the arm of msg.event,
\* Err(Empty) => start_one_crawling_iteration()? }. crawl is how the crawling
\* iteration ends: ok, err, or the panic! of an iteration that finds nothing to visit.
EvTurn(failed_at, crawl) ==
    /\ EventOnly
    /\ evPc = "looping"
    /\ IF evQueue # <<>>
       THEN LET msg == Head(evQueue)
                out == RunEvent(evMeta, msg, failed_at) IN
            /\ failed_at <= StepsOf(msg.event) /\ crawl = "ok"
            /\ evQueue' = Tail(evQueue)
            /\ evMeta' = out.meta
            /\ evPc' = IF out.err THEN "failed" ELSE "looping"
            /\ evLast' = [ran |-> msg.event, date |-> msg.new_event_date, failed_at |-> failed_at,
                          queue |-> evQueue, meta |-> evMeta]
       ELSE /\ failed_at = 0
            /\ evPc' = CASE crawl = "ok" -> "looping" [] crawl = "err" -> "failed"
                         [] crawl = "panic" -> "panicked"
            /\ evLast' = [ran |-> "crawling", date |-> 0, failed_at |-> 0, queue |-> evQueue,
                          meta |-> evMeta]
            /\ UNCHANGED <<evQueue, evMeta>>
    /\ UNCHANGED evNow

(***************************************************************************)
(* The 4Byte fetcher, insert by insert, with the process terminated and    *)
(* started again (etherface/src/fetcher/fourbyte.rs)                       *)
(***************************************************************************)
\* How often the process is started again.
MaxRestarts == 2

\* The function signatures 4Byte lists, newest first.
FunctionListing == <<"approve(address,uint256)", "balanceOf(address)", "transfer(address,uint256)">>

\* What the two endpoints list while the fetcher runs: no or one event and the
\* newest n functions.
FirstRunListings ==
    {[e \in Kinds |-> IF e = "event" THEN ev ELSE SubSeq(FunctionListing, 1, n)] :
        ev \in {<<>>, <<"Transfer(address,address,uint256)">>}, n \in 0..Len(FunctionListing)}

\* The fetcher while another part of the program is looked at.
FirstRunIdle ==
    /\ frUp = [e \in Kinds |-> <<>>]
    /\ frStore = [rows |-> {}, nextId |-> 1, kinds |-> {}, edges |-> {}]
    /\ frPc = "check"
    /\ frE = "event"
    /\ frNext = [e \in Kinds |-> 1]
    /\ frAcc = <<>>
    /\ frRuns = 0
    /\ frKilled = FALSE
    /\ frDone = {}

\* start is entered with empty tables; 4Byte lists one of the listings.
FirstRunInit ==
    /\ frUp \in FirstRunListings
    /\ frStore = [rows |-> {}, nextId |-> 1, kinds |-> {}, edges |-> {}]
    /\ frPc = "check"
    /\ frE = "event"
    /\ frNext = [e \in Kinds |-> 1]
    /\ frAcc = <<>>
    /\ frRuns = 0
    /\ frKilled = FALSE
    /\ frDone = {}

\* if get_events_count() == 0 { .. } / if get_functions_count() == 0 { .. }
FrCheckCount ==
    /\ FirstRunOnly
    /\ frPc = "check"
    /\ IF EdgeCount(frStore.edges, frE) = 0
       THEN /\ frPc' = "init_page"
            /\ frNext' = [e \in Kinds |-> 1]
            /\ frAcc' = <<>>
            /\ frE' = frE
       ELSE /\ frPc' = AfterFirstRun(frE)
            /\ frE' = "function"
            /\ UNCHANGED <<frNext, frAcc>>
    /\ UNCHANGED <<frUp, frStore, frRuns, frKilled, frDone>>

\* One turn of `while let Some(mut signatures_page) = fbc.page_..()?` in
\* initial_data_retrieval; on None the insertion loop is entered.
FrInitPage ==
    /\ FirstRunOnly
    /\ frPc = "init_page"
    /\ IF frNext[frE] # 0
       THEN /\ frAcc' = frAcc \o PageSignatures(frUp[frE], frNext[frE], frE)
            /\ frNext' = [frNext EXCEPT ![frE] = PageNext(frUp[frE], frNext[frE])]
            /\ UNCHANGED frPc
       ELSE /\ frPc' = "init_insert"
            /\ UNCHANGED <<frNext, frAcc>>
    /\ UNCHANGED <<frUp, frStore, frE, frRuns, frKilled, frDone>>

\* One turn of `for signature in signatures` in initial_data_retrieval: the signature
\* and its mapping are inserted; after the last one the function returns Ok(()).
FrInitInsert ==
    /\ FirstRunOnly
    /\ frPc = "init_insert"
    /\ IF frAcc # <<>>
       THEN /\ frStore' = InsertAll(<<Head(frAcc)>>, frStore)
            /\ frAcc' = Tail(frAcc)
            /\ UNCHANGED <<frPc, frE, frDone>>
       ELSE /\ frPc' = AfterFirstRun(frE)
            /\ frE' = "function"
            /\ frDone' = frDone \cup {frE}
            /\ UNCHANGED <<frStore, frAcc>>
    /\ UNCHANGED <<frUp, frNext, frRuns, frKilled>>

\* loop { let mut fbc = FourbyteClient::new(); ..
FrNewClient ==
    /\ FirstRunOnly
    /\ frPc = "cycle"
    /\ frNext' = [e \in Kinds |-> 1]
    /\ frE' = "event"
    /\ frPc' = "page"
    /\ UNCHANGED <<frUp, frStore, frAcc, frRuns, frKilled, frDone>>

\* One turn of `while let Some(signatures) = fbc.page_..()? { if insert_signature(..) == 0
\* { break; } }`.
FrPage ==
    /\ FirstRunOnly
    /\ frPc = "page"
    /\ IF frNext[frE] = 0
       THEN /\ frPc' = AfterPaging(frE)
            /\ frE' = "function"
            /\ UNCHANGED <<frStore, frNext>>
       ELSE LET st == InsertSignature(PageSignatures(frUp[frE], frNext[frE], frE),
                          [rows |-> frStore.rows, nextId |-> frStore.nextId,
                           kinds |-> frStore.kinds, edges |-> frStore.edges,
                           count |-> 0, known |-> FALSE]) IN
            /\ frStore' = [rows |-> st.rows, nextId |-> st.nextId, kinds |-> st.kinds,
                           edges |-> st.edges]
            /\ frNext' = [frNext EXCEPT ![frE] = PageNext(frUp[frE], frNext[frE])]
            /\ frPc' = IF st.count = 0 THEN AfterPaging(frE) ELSE "page"
            /\ frE' = IF st.count = 0 THEN "function" ELSE frE
    /\ UNCHANGED <<frUp, frAcc, frRuns, frKilled, frDone>>

\* std::thread::sleep(FETCHER_POLLING_SLEEP_TIME), then the next turn of the loop.
FrSleep ==
    /\ FirstRunOnly
    /\ frPc = "sleep"
    /\ frPc' = "cycle"
    /\ UNCHANGED <<frUp, frStore, frE, frNext, frAcc, frRuns, frKilled, frDone>>

\* The steps of FourbyteFetcher::start.
FrRun == FrCheckCount \/ FrInitPage \/ FrInitInsert \/ FrNewClient \/ FrPage \/ FrSleep

\* The process is terminated and started again: start is entered anew, the local
\* `signatures` and the client are gone, the tables are what they were.
FrRestart ==
    /\ FirstRunOnly
    /\ frRuns < MaxRestarts
    /\ frRuns' = frRuns + 1
    /\ frKilled' = (frKilled \/ frPc \in {"init_page", "init_insert"})
    /\ frPc' = "check"
    /\ frE' = "event"
    /\ frNext' = [e \in Kinds |-> 1]
    /\ frAcc' = <<>>
    /\ UNCHANGED <<frUp, frStore, frDone>>

(***************************************************************************)
(* The Etherscan scraper, cycle by cycle (etherface/src/scraper/etherscan.rs) *)
(***************************************************************************)
\* The cycles of the scraper that are looked at.
MaxCycles == 2

\* The contracts stored by the Etherscan fetcher.
ExplorerContracts == {21, 22}

\* What get_abi and from_abi make of a contract: get_abi is an Err with `why`
\* ("unreadable"), from_abi is an Err ("invalid"), or both are Ok.
ExplorerAnswers ==
    [read : {"unreadable"}, sigs : {<<>>},
     why : {"EtherscanContractSourceCodeNotVerified", "EtherscanInvalidToken"}]
    \cup [read : {"invalid"}, sigs : {<<>>}, why : {"none"}]
    \cup [read : {"ok"}, sigs : {<<>>, <<1, 2>>}, why : {"none"}]

\* EtherscanContractHandler::get_unvisited: the rows whose scraped_at is NULL.
GetUnvisited(visited) == ExplorerContracts \ visited

\* The orders in which the query can return the rows of S.
RowOrders(S) == {order \in [1..Cardinality(S) -> S] : Range(order) = S}

\* The scraper while another part of the program is looked at.
ExplorerIdle ==
    /\ xcVisited = {}
    /\ xcEdges = {}
    /\ xcPc = "sleep"
    /\ xcList = <<>>
    /\ xcWork = <<>>
    /\ xcTurns = <<>>
    /\ xcCycles = 0

\* start has created its clients; no contract is scraped.
ExplorerInit == ExplorerIdle

\* `for contract in dbc.etherscan_contract().get_unvisited()`: the loop is entered
\* with the rows the query returned.
XcBegin(list) ==
    /\ ExplorerOnly
    /\ xcPc = "sleep"
    /\ xcCycles < MaxCycles
    /\ list \in RowOrders(GetUnvisited(xcVisited))
    /\ xcList' = list
    /\ xcWork' = list
    /\ xcTurns' = <<>>
    /\ xcPc' = "scraping"
    /\ xcCycles' = xcCycles + 1
    /\ UNCHANGED <<xcVisited, xcEdges>>

\* The turn of the loop with an Err of get_abi returned by start.
XcTurnReturnsErr(abi) ==
    /\ ExplorerOnly
    /\ xcPc = "scraping"
    /\ xcWork # <<>>
    /\ LET c == Head(xcWork)
           log == ScrapeContract(c, abi) IN
        /\ xcVisited' = xcVisited \cup {e.id : e \in {x \in Range(log) : x.op = "contract_scraped"}}
        /\ xcEdges' = xcEdges \cup {<<c, e.id>> : e \in {x \in Range(log) : x.op = "edge"}}
        /\ xcTurns' = Append(xcTurns, [contract |-> c, abi |-> abi, log |-> log])
        /\ xcWork' = IF abi.read = "unreadable" THEN xcWork ELSE Tail(xcWork)
        /\ xcPc' = IF abi.read = "unreadable" THEN "failed" ELSE xcPc
    /\ UNCHANGED <<xcList, xcCycles>>

\* One turn of the loop over the unvisited contracts: get_abi, from_abi, the
\* signatures and their edges, set_visited.
XcTurn(abi) ==
    /\ ExplorerOnly
    /\ xcPc = "scraping"
    /\ xcWork # <<>>
    /\ LET c == Head(xcWork)
           log == ScrapeContract(c, abi) IN
        /\ xcVisited' = xcVisited \cup {e.id : e \in {x \in Range(log) : x.op = "contract_scraped"}}
        /\ xcEdges' = xcEdges \cup {<<c, e.id>> : e \in {x \in Range(log) : x.op = "edge"}}
        /\ xcTurns' = Append(xcTurns, [contract |-> c, abi |-> abi, log |-> log])
        /\ xcWork' = Tail(xcWork)
    /\ UNCHANGED <<xcPc, xcList, xcCycles>>

\* std::thread::sleep(SCRAPER_SLEEP_DURATION) after the last contract of the cycle.
XcSleep ==
    /\ ExplorerOnly
    /\ xcPc = "scraping"
    /\ xcWork = <<>>
    /\ xcPc' = "sleep"
    /\ UNCHANGED <<xcVisited, xcEdges, xcList, xcWork, xcTurns, xcCycles>>

(***************************************************************************)
(* Specifications                                                          *)
(***************************************************************************)
\* The three writers' calls of SignatureHandler::insert, interleaved statement by
\* statement (each worker thread has its own database connection).
InitStore == StoreInit /\ TokenIdle /\ MainInit /\ RegistryInit /\ CrawlerInit /\ IterationIdle /\ RequestInit /\ ParserIdle /\ IngestIdle /\ ClientIdle /\ LifecycleIdle /\ ForkIdle /\ EventIdle /\ FirstRunIdle /\ ExplorerIdle

\* (The texts of StoreTexts have built-in parameter types only: every worker builds
\* them with is_valid = true.)
NextStore ==
    \/ \E w \in Writers, text \in StoreTexts, kind \in Kinds : SigCall(w, text, kind, TRUE)
    \/ \E w \in Writers : SigGetByHash(w)
    \/ \E w \in Writers : SigInsertRow(w)
    \/ \E w \in Writers : SigInsertKind(w)

SpecStore == InitStore /\ [][NextStore]_vars

\* One writer alone.
NextStoreSeq ==
    \/ \E text \in StoreTexts, kind \in Kinds, is_valid \in BOOLEAN :
            SigCall(SeqWriter, text, kind, is_valid)
    \/ SigGetByHash(SeqWriter)
    \/ SigInsertRow(SeqWriter)
    \/ SigInsertKind(SeqWriter)

SpecStoreSeq == InitStore /\ [][NextStoreSeq]_vars

\* The token manager under a changing host.
InitToken == StoreInit /\ TokenInit /\ MainInit /\ RegistryInit /\ CrawlerInit /\ IterationIdle /\ RequestInit /\ ParserIdle /\ IngestIdle /\ ClientIdle /\ LifecycleIdle /\ ForkIdle /\ EventIdle /\ FirstRunIdle /\ ExplorerIdle

NextToken ==
    \/ \E t \in Tokens, r \in ProbeResults : HostChanges(t, r)
    \/ Refresh
    \/ Cleanup

SpecToken == InitToken /\ [][NextToken]_vars

\* main, the five worker threads and the abort channel. The operating system runs
\* every thread that can run: a worker that holds an error sends it, and main, blocked
\* in recv, wakes up once a message is there.
InitMain == StoreInit /\ TokenIdle /\ MainInit /\ RegistryInit /\ CrawlerInit /\ IterationIdle /\ RequestInit /\ ParserIdle /\ IngestIdle /\ ClientIdle /\ LifecycleIdle /\ ForkIdle /\ EventIdle /\ FirstRunIdle /\ ExplorerIdle

NextMain ==
    \/ SpawnFetchers
    \/ SpawnScrapers
    \/ \E w \in Workers : StartReturnsErr(w)
    \/ \E w \in Workers : StartPanics(w)
    \/ \E w \in Workers : SendAbort(w)
    \/ MainRecv

SpecMain ==
    /\ InitMain
    /\ [][NextMain]_vars
    /\ WF_vars(SpawnFetchers)
    /\ WF_vars(SpawnScrapers)
    /\ \A w \in Workers : WF_vars(SendAbort(w))
    /\ WF_vars(MainRecv)

\* The 4Byte fetcher alone on the store, and 4Byte receiving submissions.
InitRegistry == StoreInit /\ TokenIdle /\ MainInit /\ RegistryInit /\ CrawlerInit /\ IterationIdle /\ RequestInit /\ ParserIdle /\ IngestIdle /\ ClientIdle /\ LifecycleIdle /\ ForkIdle /\ EventIdle /\ FirstRunIdle /\ ExplorerIdle

NextRegistry ==
    \/ \E e \in Kinds : \E text \in EndpointTexts(e) : RegistrySubmit(e, text)
    \/ FbCheckCount
    \/ FbInitPage
    \/ FbNewClient
    \/ FbPage
    \/ FbPageFails
    \/ FbSleep

SpecRegistry == InitRegistry /\ [][NextRegistry]_vars

\* The GitHub crawler, its three timer threads, GitHub and the GitHub scraper.
InitCrawler == StoreInit /\ TokenIdle /\ MainInit /\ RegistryInit /\ CrawlerInit /\ IterationIdle /\ RequestInit /\ ParserIdle /\ IngestIdle /\ ClientIdle /\ LifecycleIdle /\ ForkIdle /\ EventIdle /\ FirstRunIdle /\ ExplorerIdle

NextCrawler ==
    \/ \E r \in Repos : Push(r)
    \/ \E r \in Repos : ScraperSetScraped(r)
    \/ \E found \in SUBSET Repos : \E probes \in RatioAnswers(found) :
           CrawlerBootstrap(found, probes)
    \/ \E ev \in Events : TimerPost(ev)
    \/ CrawlerTryRecv
    \/ \E created, updated \in SUBSET Repos : \E probes \in RatioAnswers(created) :
           SearchBegin(created, updated, probes)
    \/ \E probe \in RatioOutcomes : UpsertStep(probe)
    \/ \E recent \in SUBSET Repos : CheckBegin(recent)
    \/ \E resp \in ModifiedOutcomes : \E probe \in RatioOutcomes : CheckStep(resp, probe)
    \/ \E found \in SUBSET Repos : \E probes \in RatioAnswers(found) :
           UsersSweep(found, probes)
    \/ \E found \in SUBSET Repos : \E probes \in RatioAnswers(found) :
           \E nothingLeft \in BOOLEAN : CrawlIteration(found, probes, nothingLeft)
    \/ CrawlerRequestFails
    \/ ActivityDone

SpecCrawler == InitCrawler /\ [][NextCrawler]_vars

\* One crawling iteration after another, GitHub answering each request as it likes.
InitIteration == StoreInit /\ TokenIdle /\ MainInit /\ RegistryInit /\ IterationInit /\ RequestInit /\ ParserIdle /\ IngestIdle /\ ClientIdle /\ LifecycleIdle /\ ForkIdle /\ EventIdle /\ FirstRunIdle /\ ExplorerIdle

ListAnswers == [class : {"unavailable", "error"}, found : {{}}] \cup [class : {"ok"}, found : SUBSET Repos]

NextIteration ==
    \/ ItBegin
    \/ \E owned, starred \in ListAnswers :
           \E probes \in RatioAnswers(owned.found \cup starred.found) :
               ItVisitOwner(owned, starred, probes)
    \/ \E class \in ListClasses : \E stars \in SUBSET Users :
           ItFetchStargazers(class, stars)
    \/ \E owned, starred \in ListAnswers :
           \E probes \in RatioAnswers(owned.found \cup starred.found) :
               ItStargazer(owned, starred, probes)
    \/ ItRepoDone
    \/ ItDone
    \/ \E r \in Repos : ItScraped(r)

SpecIteration == InitIteration /\ [][NextIteration]_vars

\* The crawler issuing one request after another, GitHub answering as it likes.
InitRequests ==
    StoreInit /\ RequestTokens /\ MainInit /\ RegistryInit /\ CrawlerInit /\ IterationIdle /\ RequestInit
    /\ ParserIdle /\ IngestIdle /\ ClientIdle /\ LifecycleIdle /\ ForkIdle /\ EventIdle /\ FirstRunIdle /\ ExplorerIdle

NextRequests ==
    \/ \E site \in Sites : RqIssue(site)
    \/ ExSendFails
    \/ \E response \in Responses(SiteHandler(rqSite)) : ExRetry(response)
    \/ \E response \in Responses(SiteHandler(rqSite)) : ExReturns(response)
    \/ \E response \in Responses(SiteHandler(rqSite)) : ExPanics(response)
    \/ \E response \in Responses(SiteHandler(rqSite)), probe \in ExProbes(pool) : ExCleanup(response, probe)
    \/ \E response \in Responses(SiteHandler(rqSite)), probe \in ExProbes(pool) : ExRefresh(response, probe)
    \/ \E response \in Responses(SiteHandler(rqSite)) : ExRetryAfter(response)
    \/ RqHandle

SpecRequests == InitRequests /\ [][NextRequests]_vars

\* A FourbyteClient whose page methods are called in any order while signatures
\* are submitted to 4Byte.
InitClient ==
    StoreInit /\ TokenIdle /\ MainInit /\ RegistryInit /\ CrawlerInit /\ IterationIdle /\ RequestInit
    /\ ParserIdle /\ IngestIdle /\ ClientInit /\ LifecycleIdle /\ ForkIdle /\ EventIdle /\ FirstRunIdle /\ ExplorerIdle

NextClient ==
    \/ \E e \in Kinds : \E text \in EndpointTexts(e) : ClSubmit(e, text)
    \/ ClNew
    \/ \E e \in Kinds : ClPage(e)
    \/ \E e \in Kinds : ClPageFails(e)

SpecClient == InitClient /\ [][NextClient]_vars

\* The parser called with a content.
InitParser ==
    StoreInit /\ TokenIdle /\ MainInit /\ RegistryInit /\ CrawlerInit /\ IterationIdle /\ RequestInit
    /\ ParserInit /\ IngestIdle /\ ClientIdle /\ LifecycleIdle /\ ForkIdle /\ EventIdle /\ FirstRunIdle /\ ExplorerIdle

NextParser ==
    \/ ParseAbi
    \/ ParseSol

SpecParser == InitParser /\ [][NextParser]_vars

\* from_sol called with contents of every pragma.
PragmaInit ==
    /\ paPc = "call_sol"
    /\ paAbi = <<>>
    /\ paSol \in VisContents
    /\ paOut = <<>>

InitPragma ==
    StoreInit /\ TokenIdle /\ MainInit /\ RegistryInit /\ CrawlerInit /\ IterationIdle /\ RequestInit
    /\ PragmaInit /\ IngestIdle /\ ClientIdle /\ LifecycleIdle /\ ForkIdle /\ EventIdle /\ FirstRunIdle /\ ExplorerIdle

NextPragma == ParseSol

SpecPragma == InitPragma /\ [][NextPragma]_vars

\* The workers inserting their observations in any order, one insert at a time.
InitIngest ==
    StoreInit /\ TokenIdle /\ MainInit /\ RegistryInit /\ CrawlerInit /\ IterationIdle /\ RequestInit
    /\ ParserIdle /\ IngestInit /\ ClientIdle /\ LifecycleIdle /\ ForkIdle /\ EventIdle /\ FirstRunIdle /\ ExplorerIdle

NextIngest ==
    \/ \E o \in Observations : Ingest(o)
    \/ \E o \in Observations : Reobserve(o)

SpecIngest == InitIngest /\ [][NextIngest]_vars

\* The crawler and the two scrapers, one unit of work after another.
InitLifecycle ==
    StoreInit /\ TokenIdle /\ MainInit /\ RegistryInit /\ CrawlerInit /\ IterationIdle /\ RequestInit
    /\ ParserIdle /\ IngestIdle /\ ClientIdle /\ LifecycleInit /\ ForkIdle /\ EventIdle /\ FirstRunIdle /\ ExplorerIdle

NextLifecycle ==
    \/ \E owned, starred \in Listings : \E fault \in {NoFault} \cup Repos :
           LcOwner(OwnerOf(1), owned, starred, fault)
    \/ \E listing \in StargazerListings : \E owned, starred \in Listings :
           \E faults \in [Users -> {NoFault} \cup Repos] :
               LcRepository(1, listing, owned, starred, faults)
    \/ \E clone \in {"not_run", "failed", "ok"} : \E get \in {"ok", "unavailable", "error"} :
           \E files \in ScrapedFiles : \E removed \in BOOLEAN :
               LcScrape(1, clone, get, files, removed)
    \/ \E c \in Contracts : \E abi \in Sources : LcContract(c, abi)

SpecLifecycle == InitLifecycle /\ [][NextLifecycle]_vars


\* The crawler discovering one repository after another.
InitForks ==
    StoreInit /\ TokenIdle /\ MainInit /\ RegistryInit /\ CrawlerInit /\ IterationIdle /\ RequestInit
    /\ ParserIdle /\ IngestIdle /\ ClientIdle /\ LifecycleIdle /\ ForkInit /\ EventIdle /\ FirstRunIdle /\ ExplorerIdle

NextForks ==
    \E entity \in ForkRepos : \E probe \in [ForkRepos -> RatioProbes] : \E forks_fail \in BOOLEAN :
        Discover(entity, probe, forks_fail)

SpecForks == InitForks /\ [][NextForks]_vars

\* The crawler's loop and the three timer threads.
InitEvents ==
    StoreInit /\ TokenIdle /\ MainInit /\ RegistryInit /\ CrawlerInit /\ IterationIdle /\ RequestInit
    /\ ParserIdle /\ IngestIdle /\ ClientIdle /\ LifecycleIdle /\ ForkIdle /\ EventInit /\ FirstRunIdle /\ ExplorerIdle

NextEvents ==
    \/ \E ev \in Events : EvPost(ev)
    \/ \E failed_at \in {0, 1, 2} : \E crawl \in {"ok", "err", "panic"} : EvTurn(failed_at, crawl)

SpecEvents == InitEvents /\ [][NextEvents]_vars

\* The 4Byte fetcher with the process terminated and started again; the fetcher
\* goes on whenever it can.
InitFirstRun ==
    StoreInit /\ TokenIdle /\ MainInit /\ RegistryInit /\ CrawlerInit /\ IterationIdle /\ RequestInit
    /\ ParserIdle /\ IngestIdle /\ ClientIdle /\ LifecycleIdle /\ ForkIdle /\ EventIdle
    /\ FirstRunInit /\ ExplorerIdle

NextFirstRun ==
    \/ FrCheckCount
    \/ FrInitPage
    \/ FrInitInsert
    \/ FrNewClient
    \/ FrPage
    \/ FrSleep
    \/ FrRestart

SpecFirstRun == InitFirstRun /\ [][NextFirstRun]_vars /\ WF_vars(FrRun)

\* The Etherscan scraper and the answers of Etherscan.
InitExplorer ==
    StoreInit /\ TokenIdle /\ MainInit /\ RegistryInit /\ CrawlerInit /\ IterationIdle /\ RequestInit
    /\ ParserIdle /\ IngestIdle /\ ClientIdle /\ LifecycleIdle /\ ForkIdle /\ EventIdle
    /\ FirstRunIdle /\ ExplorerInit

NextExplorer ==
    \/ \E list \in UNION {RowOrders(S) : S \in SUBSET ExplorerContracts} :
           XcBegin(list)
    \/ \E abi \in ExplorerAnswers : XcTurn(abi)
    \/ XcSleep

SpecExplorer == InitExplorer /\ [][NextExplorer]_vars

(***************************************************************************)
(* Claims                                                                  *)
(***************************************************************************)
\* C1: under every interleaving of the three writers no two signature rows share a
\* hash and no call of insert fails because another writer inserted the same hash
\* between the call's lookup and its insert.
C1_AtomicInsertOrFetch ==
    /\ \A r1, r2 \in sigRows : r1.hash = r2.hash => r1 = r2
    /\ \A w \in Writers : wpc[w] # "panicked"

\* C2: for one writer, an insert of a hash that was stored when the call started
\* returns the existing row's id and leaves the row count as it was; an insert of a
\* hash that was not stored adds exactly one row, the one it returns.
C2_DedupLaw ==
    LET w == SeqWriter IN
        (wpc[w] # "idle" \/ wret[w] # NoRow) =>
            /\ wpc[w] # "panicked"
            /\ IF wsnap.ids # {}
               THEN /\ wpc[w] # "insert_row"
                    /\ Cardinality(sigRows) = wsnap.n
                    /\ wpc[w] = "insert_kind" => wres[w].id \in wsnap.ids
                    /\ wpc[w] = "idle" => wret[w].id \in wsnap.ids
               ELSE /\ wpc[w] \in {"get_by_hash", "insert_row"} =>
                            Cardinality(sigRows) = wsnap.n
                    /\ wpc[w] = "idle" =>
                            /\ Cardinality(sigRows) = wsnap.n + 1
                            /\ wret[w] \in sigRows
                            /\ wret[w].hash = warg[w].hash

\* A second insert of a stored hash has returned.
C2_Witness ==
    /\ wpc[SeqWriter] = "idle" /\ wret[SeqWriter] # NoRow /\ wsnap.ids # {}
    /\ Cardinality(sigRows) = 2

\* The probe of token t answered with its remaining calls.
Answered(t) == tmProbe[t].status = "ok"

SearchDrained(t) == Answered(t) /\ tmProbe[t].search = 0

C3_Pre ==
    /\ tmOp = "refresh"
    /\ ~SearchDrained(tmPrevActive)
    /\ \E t \in Range(tmPrevPool) : Answered(t) /\ tmProbe[t].core > 0

\* C3: when refresh ran with the active token's search quota not drained and some
\* pool token reporting core calls left, the active token is a pool token whose
\* remaining core calls are the largest any pool token reports, whichever token was
\* active before.
C3_RefreshSelection ==
    C3_Pre =>
        /\ active \in Range(pool)
        /\ Answered(active)
        /\ \A t \in Range(pool) : Answered(t) => tmProbe[t].core <= tmProbe[active].core

\* Scenario S6: the drained first token was active, refresh moved to the last one.
C3_Witness ==
    /\ C3_Pre
    /\ Len(pool) = 3
    /\ tmPrevActive = pool[1] /\ active = pool[3]
    /\ Answered(pool[1]) /\ tmProbe[pool[1]].core = 0
    /\ Answered(pool[2]) /\ tmProbe[pool[2]].core = 1

\* C4: refresh never leaves a token active that has fewer remaining core calls than
\* the token active before the call, and when every token that answers has none
\* left it sleeps and leaves the active token alone.
C4_RefreshMonotone ==
    tmOp = "refresh" =>
        /\ (Answered(tmPrevActive) /\ Answered(active)) =>
                tmProbe[active].core >= tmProbe[tmPrevActive].core
        /\ ( /\ \E t \in Range(tmPrevPool) : Answered(t)
             /\ \A t \in Range(tmPrevPool) : Answered(t) => tmProbe[t].core = 0 ) =>
                /\ active = tmPrevActive
                /\ tmSlept > 0
                /\ tmResult = "ok"

\* Every token is drained, the active one is not the first: refresh slept 5 minutes.
C4_Witness ==
    /\ tmOp = "refresh"
    /\ \A t \in Range(pool) : Answered(t) /\ tmProbe[t].core = 0
    /\ Len(pool) >= 2 /\ active # pool[1]
    /\ tmSlept = SLEEP_DURATION_TOKENS_DRAINED

InvalidAt(p) == {i \in 1..Len(p) : tmProbe[p[i]].status = "invalid"}

PosIn(p, t) == CHOOSE i \in 1..Len(p) : p[i] = t

\* C5: after a successful cleanup the pool holds exactly the tokens of the previous
\* pool that did not probe as invalid, in their previous order; it is shorter by the
\* number of invalid tokens, and cleanup succeeds whenever that number is less than
\* the pool's size.
C5_CleanupEviction ==
    tmOp = "cleanup" =>
        /\ Cardinality(InvalidAt(tmPrevPool)) < Len(tmPrevPool) => tmResult = "ok"
        /\ tmResult = "ok" =>
            /\ Range(pool) = {t \in Range(tmPrevPool) : tmProbe[t].status # "invalid"}
            /\ \A i, j \in 1..Len(pool) :
                    i < j => PosIn(tmPrevPool, pool[i]) < PosIn(tmPrevPool, pool[j])
            /\ Len(pool) = Len(tmPrevPool) - Cardinality(InvalidAt(tmPrevPool))

\* One token was evicted, one whose probe failed otherwise was kept.
C5_Witness ==
    /\ tmOp = "cleanup" /\ tmResult = "ok"
    /\ Len(pool) = Len(tmPrevPool) - 1
    /\ \E t \in Range(pool) : tmProbe[t].status = "error"

\* C6: when every token of the pool probes as invalid, cleanup returns the
\* pool-empty error and leaves pool and active token as they were, so that another
\* cleanup returns the pool-empty error again.
C6_CleanupAllInvalid ==
    (tmOp = "cleanup" /\ \A t \in Range(tmPrevPool) : tmProbe[t].status = "invalid") =>
        /\ tmResult = "pool_empty"
        /\ pool = tmPrevPool
        /\ active = tmPrevActive
        /\ CleanupOutcome(pool, active, tmProbe).result = "pool_empty"

C6_Witness ==
    /\ tmOp = "cleanup" /\ tmResult = "pool_empty"
    /\ Len(pool) >= 2
    /\ active # pool[1]

Failed(w) == thr[w] \in {"returned_err", "sent"}

\* C8 as stated: whenever the process has terminated, it terminated with the error
\* of every worker whose start function returned one.
C8_TerminatesWithEveryError ==
    mainPc = "exited" => \A w \in Workers : Failed(w) => exitErr = w

\* C8, amended: an error returned by a worker's start function is sent on the abort
\* channel unless the process terminates first, and it leads to the termination of
\* the process; main terminates with the first error that arrived on the channel,
\* which is the error some worker returned and sent; no worker that has stopped
\* ever runs again.
C8_Supervisor ==
    /\ [](mainPc = "exited" => exitErr \in Workers /\ thr[exitErr] = "sent")
    /\ [][(mainPc # "exited" /\ mainPc' = "exited") =>
              (abortChan # <<>> /\ exitErr' = Head(abortChan))]_vars
    /\ [][\A w \in Workers :
              thr[w] \in {"returned_err", "sent", "panicked"} =>
                  thr'[w] \in {thr[w], "sent"} /\ thr'[w] # "running"]_vars
    /\ \A w \in Workers : (thr[w] = "returned_err") ~> (thr[w] = "sent" \/ mainPc = "exited")
    /\ \A w \in Workers : (thr[w] = "returned_err") ~> (mainPc = "exited")

\* Two workers failed; the process terminated with the error of the first.
C8_Witness ==
    /\ mainPc = "exited"
    /\ exitErr = "github_fetcher"
    /\ thr["github_scraper"] = "sent"
    /\ thr["etherscan_scraper"] = "running"

\* C10: in a steady-state cycle the pages of an endpoint are fetched in order from
\* page 1, and once a signature whose 4Byte edge already exists was met on a page,
\* no later page of that endpoint is fetched in that cycle.
C10_RegistrySyncHalt ==
    fbPc \in {"page", "sleep"} =>
        \A e \in Kinds :
            /\ \A i \in 1..Len(fbFetched[e]) : fbFetched[e][i] = i
            /\ fbKnownAt[e] # 0 => Len(fbFetched[e]) = fbKnownAt[e]

RefreshStep == crLast.path \in {"upsert", "check"}

\* C7 as stated: after a refresh step of either path that saw an upstream pushed_at
\* different from the stored one (and did not end start with an error), the row's
\* scraped_at is NULL.
C7_Freshness ==
    (RefreshStep /\ crLast.differs /\ crPc # "failed") => ~repoDb[crLast.repo].scraped

\* C7, amended: after a refresh step of either path that saw an upstream pushed_at
\* different from the stored one, the row's scraped_at is NULL and its pushed_at is
\* the upstream one, provided the language request of the step succeeded; when that
\* request reported the repository unavailable the row is marked deleted, and when
\* it did not succeed scraped_at is what it was before the step.
C7_FreshnessWhenProbed ==
    (RefreshStep /\ crLast.differs) =>
        /\ crLast.probe = "ok" =>
               /\ ~repoDb[crLast.repo].scraped
               /\ repoDb[crLast.repo].pushed = crLast.seen
        /\ crLast.probe = "unavailable" => repoDb[crLast.repo].deleted
        /\ crLast.probe # "ok" => repoDb[crLast.repo].scraped = crLast.scrapedBefore

\* A scraped repository was pushed to and CheckRepositories has just cleared its
\* scraped_at.
C7_Witness ==
    /\ crLast.path = "check"
    /\ crLast.differs
    /\ crLast.probe = "ok"
    /\ crLast.scrapedBefore
    /\ ~repoDb[crLast.repo].scraped

\* C9: at every moment the crawler executes at most one of a crawling iteration and
\* the three events, and one of them starts only when none is in progress, the one
\* before having run to completion.
C9_StrictSerialization ==
    /\ [](Cardinality(crRunning) <= 1 /\ crRunning \subseteq Activities)
    /\ [][crRunning' \ crRunning # {} => (crRunning = {} /\ crPc = "try_recv")]_vars

\* Two events wait in the channel while CheckRepositories is in the middle of its sweep.
C9_Witness ==
    /\ crRunning = {"CheckRepositories"}
    /\ crWork # <<>>
    /\ Len(evChan) = MaxQueued

\* C11: when the stargazer fetch of a repository of the batch is classified
\* resource-unavailable, the repository is marked deleted, the visit records no
\* stargazer (no user row, no stargazer edge), the iteration does not fail, and the
\* visit ends with exactly the other repositories of the batch still to be visited.
C11_UnavailableRepository ==
    itTurn.class = "unavailable" =>
        /\ repoDb[itTurn.repo].deleted
        /\ itUsers = itTurn.users
        /\ itEdges = itTurn.edges
        /\ itPc \notin {"failed", "panicked"}
        /\ itStarWork = <<>>
        /\ IF itTurn.done
           THEN itPc = "repos" /\ itBatch = itTurn.rest /\ itTurn.repo \in itVisited
           ELSE itPc = "stargazers" /\ itBatch = <<itTurn.repo>> \o itTurn.rest

\* The first repository of a batch of two was unavailable; its visit is over and the
\* second one is next.
C11_Witness ==
    /\ itTurn.class = "unavailable" /\ itTurn.done
    /\ itPc = "repos" /\ itBatch = <<2>>
    /\ repoDb[1].deleted /\ ~repoDb[2].deleted

\* C12: a request the crawler issues on behalf of one repository or user that is
\* classified resource-unavailable never ends the crawler; the row is marked deleted
\* and the crawler goes on.
C12_UnavailableNeverFatal ==
    (rqLast.result = "unavailable" /\ SiteTarget(rqLast.site) # "none") =>
        /\ rqPc # "failed"
        /\ SiteTarget(rqLast.site) \in rqDeleted

\* C13: a credential-pool-empty error raised by cleanup or refresh during a request
\* of the crawler comes out of execute and ends the crawler, whichever call site
\* issued the request.
C13_PoolEmptyFatal ==
    /\ (ex.last \in {"cleanup", "refresh"} /\ ex.result = "pool_empty") => rqPc \in {"returned", "failed"}
    /\ rqLast.result = "pool_empty" => rqPc = "failed"

\* C19: a request whose send fails at the transport level is retried up to 5 times,
\* and execute returns the transport error only after those 5 retries are used up.
C19_FiveRetriesBeforeError ==
    ex.result = "http_request" => ex.resent = 5

\* C20 as claimed: the sleep after the k-th response classified Retry lasts
\* 5 * min(k, 10) seconds, and execute goes on without returning an error.
C20_Backoff ==
    ex.last = "retry" =>
        /\ ex.slept = 5 * Min(ex.k, 10)
        /\ rqPc = "executing" /\ ex.result = "none"

\* C20 as amended: the sleep after the k-th response classified Retry lasts
\* 5 * min(k + 1, 10) seconds (retries_valid starts at 1 and is incremented before
\* the sleep), and execute goes on without returning an error.
C20_BackoffCountsFirst ==
    ex.last = "retry" =>
        /\ ex.slept = 5 * Min(ex.k + 1, 10)
        /\ ex.retries_valid = Min(ex.k + 1, 10)
        /\ rqPc = "executing" /\ ex.result = "none"

C20_Witness ==
    ex.last = "retry" /\ ex.k = 11 /\ ex.slept = 50 /\ ex.retries > 0

\* The entries of an ABI array from_abi is to emit a signature for.
AbiEmitted(content) ==
    {i \in 1..Len(content) : content[i].kind \in {"function", "event", "error"} /\ content[i].name # <<>>}

\* name + "(" + the input types separated by commas + ")" for the inputs of the model.
AbiText(e) ==
    LET types == IF e.inputs = <<>> THEN <<>> ELSE e.inputs[1] IN
    CASE Len(types) = 0 -> e.name[1] \o "()"
      [] Len(types) = 1 -> e.name[1] \o "(" \o types[1] \o ")"
      [] Len(types) = 2 -> e.name[1] \o "(" \o types[1] \o "," \o types[2] \o ")"
      [] Len(types) = 3 -> e.name[1] \o "(" \o types[1] \o "," \o types[2] \o "," \o types[3] \o ")"

\* C14: from_abi emits exactly one signature for each entry of kind function, event
\* or error that has a name, in the order of the entries, and none for another
\* entry; its text is name(types joined by commas), "name()" without inputs.
C14_FromAbi ==
    paPc = "abi" =>
        /\ Len(paOut) = Cardinality(AbiEmitted(paAbi))
        /\ \A i \in AbiEmitted(paAbi) :
              LET j == Cardinality({k \in AbiEmitted(paAbi) : k <= i}) IN
                /\ paOut[j].text = AbiText(paAbi[i])
                /\ paOut[j].kind = paAbi[i].kind

C14_Witness ==
    /\ paPc = "abi" /\ Len(paAbi) = 2 /\ Len(paOut) = 1
    /\ paAbi[1].kind = "constructor" /\ paAbi[1].name # <<>>
    /\ paAbi[2].kind = "error"
    /\ paOut[1].text = "f(uint256,address,bool)"

\* The texts of the value types among the type tokens of the model's inputs.
ValueTypeTexts == {"address", "uint256", "uint256[]", "bytes32[2][]", "bool"}

\* The signature from_sol builds for a match: its text and its flag.
SolExpected(c) ==
    [text |-> c.name \o "(" \o JoinComma(c.params.types) \o ")",
     kind |-> c.kind,
     is_valid |-> \A t \in Range(c.params.types) : t = "" \/ t \in ValueTypeTexts]

Content(st) ==
    LET TextOf(id) == (CHOOSE r \in st.rows : r.id = id).text IN
    [rows |-> {<<r.text, r.hash, r.is_valid>> : r \in st.rows},
     tags |-> {<<TextOf(t[1]), t[2]>> : t \in st.kinds},
     edges |-> [t \in Tables |-> {<<TextOf(e.signature_id), e.source, e.kind>> : e \in st.edges[t]}]]

\* The orders in which the observations of S can be applied.
Orders(S) == {order \in [1..Cardinality(S) -> S] : Range(order) = S}

\* C16: once every observation is inserted, the content of the store apart from row
\* ids and timestamps is what inserting them in any other order gives.
C16_Commutative ==
    inPending = {} =>
        \A order \in Orders(inAll) :
            Content([rows |-> sigRows, nextId |-> sigNextId, kinds |-> sigKinds, edges |-> inEdges])
                = Content(IngestAll(EmptyStore, order, 0))

\* C17: every signature row has hash = lowercase hex of keccak256 of its text, and no
\* step changes the text or the hash of a stored row.
C17_HashLaw ==
    /\ [](\A r \in sigRows : r.hash = Keccak256Hex(r.text))
    /\ [][\A r \in sigRows : \E r2 \in sigRows' : r2.id = r.id /\ r2.text = r.text /\ r2.hash = r.hash]_vars

C17_Witness ==
    /\ Cardinality(sigRows) = 2
    /\ inLast.tagged
    /\ \E r \in sigRows : ~r.is_valid

BodySaysBlocked(body) ==
    \/ body.form = "text" /\ Contains(body.content, "access blocked")
    \/ body.form = "json" /\ body.message # <<>> /\ Contains(body.message[1], "access blocked")

\* C21: a response of the code host is classified by its status: 200 and 304 are
\* Ok; 401 is retried after cleanup; a 403 whose body message contains "access
\* blocked" is the terminal resource-unavailable error and any other 403 is retried
\* after refresh; 404 and 451 are resource-unavailable; every other status is Retry.
C21_GithubClassification ==
    (SiteHandler(rqSite) = "github" /\ ex.resp # NoResponse) =>
        LET status == ex.resp.status IN
        /\ status \in {200, 304} => ex.last = "ok"
        /\ status = 401 => ex.last = "cleanup"
        /\ (status = 403 /\ BodySaysBlocked(ex.resp.body)) =>
                ex.last = "err" /\ ex.result = "unavailable"
        /\ (status = 403 /\ ~BodySaysBlocked(ex.resp.body)) => ex.last = "refresh"
        /\ status \in {404, 451} => ex.last = "err" /\ ex.result = "unavailable"
        /\ status \notin {200, 304, 401, 403, 404, 451} => ex.last = "retry"

\* C26: a turn of execute whose response is classified RetryWithAction or
\* RetryWithCustomSleepDuration(seconds) leaves retries and retries_valid as they
\* were, and execute sleeps nothing of its backoff after it: nothing after an
\* action, exactly the given seconds after the other.
C26_ActionsAreFree ==
    ex.last \in {"cleanup", "refresh", "retry_after"} =>
        /\ ex.retries = ex.pretries
        /\ ex.retries_valid = ex.pvalid
        /\ ex.slept = Process(SiteHandler(rqSite), ex.resp).seconds
        /\ ex.last = "retry_after" => ex.slept = 1 /\ rqPc = "executing"

C26_Witness ==
    /\ ex.last = "retry_after" /\ ex.retries = 2 /\ ex.retries_valid = 3 /\ ex.slept = 1
    /\ rqPc = "executing"

\* C27: every attempt of execute carries the credential that is active when the
\* turn of the loop that builds it starts, so after a cleanup or a refresh has
\* returned: the credential the action selected is the one of the next attempt.
C27_AttemptCarriesActive ==
    [][(rqPc = "executing" /\ ex' # ex /\ SiteHandler(rqSite) = "github") =>
            ex'.bearer = active]_vars

C27_Witness ==
    /\ SiteHandler(rqSite) = "github" /\ ex.last = "retry" /\ ex.bearer = "B"
    /\ pool = <<"A", "B">>


\* C24: after TokenManager::new and after every cleanup and refresh, whether it
\* returned Ok or an error, the pool is not empty and the one active token is a
\* token of the pool.
C24_PoolInvariant ==
    /\ pool # <<>>
    /\ active \in Range(pool)

\* A cleanup evicted the active token, a later refresh failed.
C24_Witness ==
    /\ tmOp = "refresh" /\ tmResult = "pool_empty"
    /\ Len(pool) = 2 /\ active = pool[1] /\ active # "A"

C22_Cursors ==
    /\ clRet = NoCall => \A e \in Kinds : clNext[e] = 1
    /\ clRet.result \in {"some", "none"} =>
        LET e == clRet.e
            cursor == clRet.before[e]
        IN  /\ \A o \in Kinds \ {e} : clNext[o] = clRet.before[o]
            /\ cursor # 0 =>
                /\ clRet.result = "some" /\ clRet.requested
                /\ clRet.page = PageSignatures(clRet.list, cursor, e)
                /\ clNext[e] = PageNext(clRet.list, cursor)
            /\ cursor = 0 =>
                /\ clRet.result = "none" /\ ~clRet.requested
                /\ clNext[e] = 0

\* The function link is at page 2 when the last page of the events was returned
\* before, and events are asked for again.
C22_Witness ==
    /\ clRet.e = "event" /\ clRet.result = "none" /\ clRet.before["event"] = 0
    /\ clUp["event"] # <<>>
    /\ clNext["function"] = 2


\* Whether a version bound admits a compiler version below 0.5.0.
Admits(condition, version) ==
    /\ version # <<>>
    /\ ~(condition = ">" /\ VersionGE(version[1], <<0, 4, 26>>))
    /\ ~(condition \in {">=", "^", "~"} /\ VersionGE(version[1], <<0, 5, 0>>))
    /\ ~(condition = "=" /\ VersionGE(version[1], <<0, 4, 26>>) /\ version[1] # <<0, 4, 26>>)

\* No pragma, or every bound of the pragma admits a version below 0.5.0.
AdmitsOld(pragma) ==
    \/ pragma = <<>>
    \/ /\ pragma # <<>>
       /\ Admits(ConditionOf(pragma[1].lhs.condition), pragma[1].lhs.version)
       /\ pragma[1].rhs # <<>> => Admits(pragma[1].rhs[1].condition, pragma[1].rhs[1].version)

\* The visibility a match is to be emitted with, <<>> when it is not to be emitted.
VisExpected(c, pragma) ==
    IF c.kind # "function" THEN <<"public">>
    ELSE IF c.visibility # <<>> THEN c.visibility
    ELSE IF AdmitsOld(pragma) THEN <<"public">> ELSE <<>>

\* C23: a function matched without a visibility keyword is emitted, as Public, iff
\* the content has no pragma or every bound of its pragma admits a version below
\* 0.5.0, and is not emitted otherwise; a function with a visibility keyword is
\* emitted with that visibility whatever the pragma.
C23_DefaultVisibility ==
    paPc = "sol" =>
        LET emitted == SelectSeq(paSol.matches, LAMBDA c : VisExpected(c, paSol.pragma) # <<>>) IN
            /\ Len(paOut) = Len(emitted)
            /\ \A j \in 1..Len(emitted) :
                  /\ paOut[j].kind = emitted[j].kind
                  /\ paOut[j].visibility = VisExpected(emitted[j], paSol.pragma)[1]

\* `pragma solidity >0.4.25 <0.5.0`: the function without a keyword is Public.
C23_Witness ==
    /\ paPc = "sol" /\ Len(paOut) = 1 /\ paOut[1].visibility = "public"
    /\ paSol.matches[1].kind = "function" /\ paSol.matches[1].visibility = <<>>
    /\ paSol.pragma # <<>>
    /\ paSol.pragma[1].lhs = [condition |-> <<">">>, version |-> <<<<0, 4, 25>>>>]
    /\ paSol.pragma[1].rhs # <<>>



\* Write w is in log before position i.
Before(log, i, w) == \E j \in 1..(i - 1) : log[j] = w

\* The signatures the parser returned for the sources a scraper read.
SigsOf(files) == UNION {Range(files[k].sigs) : k \in {n \in 1..Len(files) : files[n].read = "ok"}}

\* C28: lifecycle flags are set only after the unit of work. In the writes of every
\* unit, in their order: a user's visited_at is written only after every repository
\* the listings of that turn returned has been stored; a repository's visited_at
\* only after every stargazer listed has its edge and is set visited; a repository's
\* scraped_at after a successful clone, and a contract's scraped_at, only after the
\* signature and the edge of every signature of every source have been inserted.
\* And a flag is set in the tables only by such a write.
C28_FlagsAfterWork ==
    /\ [](\A i \in 1..Len(lcUnit.log) :
            LET w == lcUnit.log[i] IN
            /\ w.op = "user_visited" =>
                   \A r \in lcUnit.returned : Before(lcUnit.log, i, Did("repository", r))
            /\ w.op = "repository_visited" =>
                   \A u \in Range(lcUnit.stars) :
                       /\ Before(lcUnit.log, i, Did("stargazer", u))
                       /\ Before(lcUnit.log, i, Did("user_visited", u))
            /\ (w.op = "repository_scraped" /\ lcUnit.clone = "ok") \/ w.op = "contract_scraped" =>
                   \A sig \in SigsOf(lcUnit.files) :
                       /\ Before(lcUnit.log, i, Did("signature", sig))
                       /\ Before(lcUnit.log, i, Did("edge", sig)))
    /\ [][lcFlags' \ lcFlags \subseteq FlagsOf(lcUnit'.log)]_vars

\* The four units have closed: the owner's turn stored two repositories, the visit of
\* the repository handled two stargazers, and the clone and the contract held
\* signatures.
C28_Witness ==
    /\ {<<"user_visited", 7>>, <<"user_visited", 8>>, <<"repository_visited", 1>>,
        <<"repository_scraped", 1>>, <<"contract_scraped", 21>>} \subseteq lcFlags
    /\ lcUnit.kind = "repository" /\ Len(lcUnit.stars) = 2 /\ lcUnit.returned = {1, 2}
    /\ lcCrawler = "running"

\* C29: no operation of the crawler inserts a repository row for an id that is
\* already in the table: every insert of a discovery found its id absent, and no
\* discovery ends in a duplicate-key failure.
C29_NoDoubleInsert ==
    /\ fkPc # "panicked"
    /\ \A i \in 1..Len(fkLast.inserts) : fkLast.inserts[i].fresh

\* C30: every fork row inserted by the enumeration of the parent's forks has the
\* ratio stored for the parent, and no language request was made for it.
C30_ForksInheritParentRatio ==
    \A i \in 1..Len(fkLast.inserts) :
        LET ins == fkLast.inserts[i] IN
        (ins.via = "fork" /\ ins.fresh) =>
            /\ fkDb[ins.id].ratio = fkDb[ForkParent(fkGithub, fkLast.entity)].ratio
            /\ ins.id \notin fkLast.probed


\* C31: insert_repository_if_not_exists never recurses deeper than 2 (the discovered
\* repository and its parent), whatever chain of sources the payload carries.
C31_DepthAtMostTwo == fkLast.deepest <= 2

\* C32: a call of insert_repository_if_not_exists for an id that is stored inserts no
\* row, sends no request (no language request, no fork listing) and leaves every row
\* as it was, except that is_deleted of that row is cleared.
C32_KnownRepositoryUntouched ==
    (fkLast.entity # 0 /\ fkLast.before[fkLast.entity].present) =>
        /\ fkLast.inserts = <<>>
        /\ fkLast.probed = {} /\ fkLast.listed = {}
        /\ fkPc = "running"
        /\ fkDb = [fkLast.before EXCEPT ![fkLast.entity].deleted = FALSE]

\* A repository stored with a ratio and marked deleted was met again.
C32_Witness ==
    /\ fkLast.entity # 0
    /\ fkLast.before[fkLast.entity].present
    /\ fkLast.before[fkLast.entity].deleted
    /\ ~fkDb[fkLast.entity].deleted
    /\ \E r \in ForkRepos : fkDb[r].present /\ fkDb[r].ratio # 0


\* C33: a turn of the updated-on-date sweep for a stored repository whose upstream
\* pushed_at equals the stored one leaves the row's scraped_at as it was.
C33_SweepKeepsScrapedAt ==
    (crLast.path = "upsert" /\ ~crLast.differs) =>
        repoDb[crLast.repo].scraped = crLast.scrapedBefore


\* C34: messages leave the channel in the order they were posted, and a turn of the
\* loop that finds a message runs the event of the oldest one; a crawling iteration
\* runs only in a turn that finds the channel empty.
C34_EventsFirstInOrder ==
    /\ [](evLast.ran # "none" =>
            IF evLast.queue # <<>>
            THEN evLast.ran = Head(evLast.queue).event /\ evQueue = Tail(evLast.queue)
            ELSE evLast.ran = "crawling" /\ evQueue = <<>>)
    /\ [][Len(evQueue') > Len(evQueue) =>
            /\ Len(evQueue') = Len(evQueue) + 1
            /\ SubSeq(evQueue', 1, Len(evQueue)) = evQueue]_vars

\* Two different events waited; the older one has just run and the younger one is
\* next.
C34_Witness ==
    /\ Len(evLast.queue) = 2
    /\ evLast.queue[1].event # evLast.queue[2].event
    /\ evLast.ran = evLast.queue[1].event
    /\ evPc = "looping"

\* C35: a stored timestamp changes only in a turn that ran its event without an
\* error, to the date of the message; a turn whose event fails ends start with the
\* error and leaves every timestamp as it was.
C35_StampsOnlyOnSuccess ==
    /\ [][\A ev \in Events : evMeta'[ev] # evMeta[ev] =>
            /\ evLast'.ran = ev /\ evLast'.failed_at = 0
            /\ evMeta'[ev] = evLast'.date]_vars
    /\ []((evLast.ran \in Events /\ evLast.failed_at # 0) =>
            evPc = "failed" /\ evMeta = evLast.meta)

\* SearchRepositories failed in its second call after an earlier run of it had
\* stored a timestamp.
C35_Witness ==
    /\ evLast.ran = "SearchRepositories" /\ evLast.failed_at = 2
    /\ evMeta["SearchRepositories"] # 0
    /\ evLast.date > evMeta["SearchRepositories"]


\* get_unscraped_with_forks: the repositories whose scraped_at is NULL and which are
\* not deleted (the stored repository 1 has Solidity code); the work list of the
\* GitHub scraper's next cycle.
GetUnscrapedWithForks(flags) ==
    {r \in {1} : <<"repository_scraped", r>> \notin flags
                   /\ <<"repository_deleted", r>> \notin flags}

\* C36: after a turn of the GitHub scraper in which `git clone` failed and the
\* repository request answered that the repository is available, the repository is
\* in the work list of the scraper's next cycle.
C36_FailedCloneIsRetried ==
    (/\ lcUnit.kind = "scrape" /\ lcUnit.clone = "failed"
     /\ Did("repository_scraped", lcUnit.id) \in Range(lcUnit.log))
        => lcUnit.id \in GetUnscrapedWithForks(lcFlags)



\* Every signature endpoint e lists has a Signature row and a 4Byte edge of kind e.
Ingested(e) ==
    \A text \in Range(frUp[e]) :
        \E row \in frStore.rows : row.text = text /\ <<row.id, e>> \in frStore.edges

\* C37: once initial_data_retrieval of an endpoint has returned, every signature of
\* the endpoint has its row and its edge; and when the process was terminated inside
\* initial_data_retrieval and started again, eventually every signature of both
\* endpoints has its row and its edge.
C37_FirstRunSurvivesRestart ==
    /\ [](\A e \in frDone : Ingested(e))
    /\ [](frKilled => <>(\A e \in Kinds : Ingested(e)))


\* The contracts of the turns made so far in the cycle, in their order.
TurnContracts == [i \in 1..Len(xcTurns) |-> xcTurns[i].contract]

\* The turn's get_abi ended with "Contract source code not verified".
NotVerifiedTurn(t) == t.abi.why = "EtherscanContractSourceCodeNotVerified"

\* C38: a turn of the Etherscan scraper whose get_abi ended with "Contract source
\* code not verified" writes nothing (no signature, no edge for the contract), the
\* scraper goes on, and every contract get_unvisited returned to the cycle gets its
\* turn: the turns made and the contracts still to come are the returned list, and
\* when the scraper sleeps every contract of the list had its turn.
C38_NotVerifiedIsSwallowed ==
    /\ xcPc \in {"sleep", "scraping"}
    /\ TurnContracts \o xcWork = xcList
    /\ xcPc = "sleep" => TurnContracts = xcList
    /\ \A i \in 1..Len(xcTurns) :
           NotVerifiedTurn(xcTurns[i]) =>
               /\ xcTurns[i].log = <<>>
               /\ \A s \in {1, 2} : <<xcTurns[i].contract, s>> \notin xcEdges

\* A cycle over two contracts: the first is not verified, the second was scraped with
\* its two signatures, and the scraper sleeps.
C38_Witness ==
    /\ xcPc = "sleep"
    /\ Len(xcTurns) = 2
    /\ NotVerifiedTurn(xcTurns[1])
    /\ xcTurns[2].abi.read = "ok"
    /\ xcTurns[2].contract \in xcVisited
    /\ {<<xcTurns[2].contract, 1>>, <<xcTurns[2].contract, 2>>} \subseteq xcEdges
    /\ xcTurns[1].contract \notin xcVisited


\* C39: a contract whose get_abi was an Err (the source is not verified) has its
\* scraped_at set after the turn, and a repository whose clone failed and which GitHub
\* reports unavailable is not in the scraper's work list after the turn; neither is
\* worked on again in the following cycles.
C39_TerminalIsRecordedOnRow ==
    /\ (lcUnit.kind = "contract" /\ lcUnit.files[1].read = "unreadable")
           => <<"contract_scraped", lcUnit.id>> \in lcFlags
    /\ (lcUnit.kind = "scrape" /\ lcUnit.clone = "failed"
            /\ Did("repository_deleted", lcUnit.id) \in Range(lcUnit.log))
           => lcUnit.id \notin GetUnscrapedWithForks(lcFlags)


\* C40: while the process runs, every spawned worker either runs or has returned an
\* error from start that is on its way to main; no worker is gone without one.
C40_NoSilentWorkerStop ==
    ProcessRunning => \A w \in Workers : thr[w] \in {"unspawned", "running", "returned_err", "sent"}

====
